---------------------------- MODULE Spec2Model ----------------------------
(***************************************************************************)
(* The detect/track pipeline of flam-optical-js: the App orchestrator      *)
(* (processFrame), the OpticalFlowTracker, the FeatureDetector's decision, *)
(* the overlay renderer's detection flag, the trainer of the reference     *)
(* pattern (ImageProcessingService) and the CameraService.                 *)
(*                                                                         *)
(* Numbers.  Pixel coordinates are integers; a quotient the code computes  *)
(* in floating point is the integer quotient here, and Sqrt is the integer *)
(* square root.  The inputs enumerated below are translations and shears  *)
(* by whole pixels, so no comparison of the code is decided by the         *)
(* rounding.                                                               *)
(*                                                                         *)
(* Libraries.  jsfeat (optical_flow_lk.track, motion_estimator.ransac,     *)
(* homography2d.run, yape06, orb) and the browser are the environment:     *)
(* what they return is an input of the tick, drawn from small sets.        *)
(***************************************************************************)
EXTENDS Integers, Sequences, FiniteSets, TLC

(***************************************************************************)
(* Program constants (CONFIG and the literals of the code).                *)
(***************************************************************************)
MAX_CORNERS == 300
POINT_THRESHOLD == 20
GOOD_MATCH_THRESHOLD_TRACKING == 20
PRUNE_THRESHOLD == 20
MAX_PERSIST_OPTICAL_FRAMES == 6
MAX_PATTERN_SIZE == 512
\* the literal 10 of "opticalPersistFrameCount < 10 && opticalPersistFrameCount++"
PERSIST_COUNT_LIMIT == 10
\* the literal 25 of "checkPointDensity() < 25"
DENSITY_LIMIT == 25

(***************************************************************************)
(* Bounds of the model.                                                    *)
(***************************************************************************)
\* the camera view: a frame is taken only while the top-left corner of the
\* tracked pattern is at most MaxX pixels to the right of the origin
MaxX == 44
\* the history counters of consecutive ticks stop counting here
MaxRun == 8
\* the length of the detect-then-track run that idealRun counts
IdealFrames == 20

(***************************************************************************)
(* Arithmetic.                                                             *)
(***************************************************************************)
Abs(a) == IF a < 0 THEN -a ELSE a

Min(a, b) == IF a < b THEN a ELSE b

RECURSIVE SqrtFrom(_, _, _)
\* the largest r in lo..hi with r*r <= n, by bisection
SqrtFrom(n, lo, hi) ==
  IF lo >= hi THEN lo
  ELSE LET mid == (lo + hi + 1) \div 2
       IN IF mid * mid <= n THEN SqrtFrom(n, mid, hi)
                            ELSE SqrtFrom(n, lo, mid - 1)

Max(a, b) == IF a > b THEN a ELSE b

\* the function f on 1..n as an array: the tuple of its values
Array(f) == f \o << >>

\* the sum of f[1..n], by halves
SumTo(f, n) ==
  LET RECURSIVE Over(_, _)
      Over(lo, hi) ==
        IF lo > hi THEN 0
        ELSE IF lo = hi THEN f[lo]
        ELSE Over(lo, (lo + hi) \div 2) + Over((lo + hi) \div 2 + 1, hi)
  IN Over(1, n)

(***************************************************************************)
(* Points, quads and 3x3 matrices (row-major 9-tuples, as jsfeat stores    *)
(* them).                                                                  *)
(***************************************************************************)
Pt(x, y) == <<x, y>>

\* ImageUtils.distance / OpticalFlowTracker.distance: Math.sqrt(dx*dx + dy*dy)
\* on the integer grid; the root lies between max(|dx|,|dy|) and |dx|+|dy|
distance(p1, p2) ==
  LET dx == Abs(p1[1] - p2[1])
      dy == Abs(p1[2] - p2[2])
  IN SqrtFrom(dx * dx + dy * dy, Max(dx, dy), dx + dy)

\* jsfeat.matmath.identity_3x3(M, 1.0)
Identity3x3 == <<1, 0, 0, 0, 1, 0, 0, 0, 1>>

\* jsfeat.matmath.multiply_3x3(C, A, B): C = A * B
multiply_3x3(A, B) ==
  Array([k \in 1..9 |->
     LET r == (k - 1) \div 3
         c == (k - 1) % 3
     IN A[3 * r + 1] * B[c + 1] + A[3 * r + 2] * B[c + 4] + A[3 * r + 3] * B[c + 7]])

\* what stands for the NaN or Infinity of a division by 0: a coordinate no
\* finite computation of the model produces
NaN == -(MAX_PATTERN_SIZE * MAX_PATTERN_SIZE)

\* a point through a homography, dividing by the w component
ApplyH(M, p) ==
  LET px == M[1] * p[1] + M[2] * p[2] + M[3]
      py == M[4] * p[1] + M[5] * p[2] + M[6]
      z  == M[7] * p[1] + M[8] * p[2] + M[9]
  IN IF z = 0 THEN Pt(NaN, NaN) ELSE Pt(px \div z, py \div z)

\* The variant transform the embedder passes: offset (0,0,0), scale (1,1,1).
\* ImageUtils.transformCorners with it: scaledWidth = w, scaledHeight = h,
\* offsetX = offsetY = 0; corners TL, TR, BR, BL through M.
transformCorners(M, w, h) ==
  LET pt == <<Pt(0, 0), Pt(w, 0), Pt(w, h), Pt(0, h)>>
  IN Array([i \in 1..4 |-> ApplyH(M, pt[i])])

\* ImageUtils.calculateAverageCornerMovement(current, previous) > limit,
\* the quotient totalDistance / length cross-multiplied
AverageCornerMovementExceeds(currentCorners, previousCorners, limit) ==
  IF Len(previousCorners) # Len(currentCorners) THEN 0 > limit
  ELSE LET d == Array([i \in 1..Len(currentCorners) |->
                          distance(currentCorners[i], previousCorners[i])])
       IN SumTo(d, Len(currentCorners)) > limit * Len(currentCorners)

(***************************************************************************)
(* Quad validation (OpticalFlowTracker.isQuadrilateral).                   *)
(***************************************************************************)
\* 1000 * cos((k - 1/2) degrees), k = 1..180
CosHalfDeg ==
  << 1000, 1000, 999, 998, 997, 995, 994, 991, 989, 986, 983, 980,
     976, 972, 968, 964, 959, 954, 948, 943, 937, 930, 924, 917,
     910, 903, 895, 887, 879, 870, 862, 853, 843, 834, 824, 814,
     804, 793, 783, 772, 760, 749, 737, 725, 713, 701, 688, 676,
     663, 649, 636, 623, 609, 595, 581, 566, 552, 537, 522, 508,
     492, 477, 462, 446, 431, 415, 399, 383, 367, 350, 334, 317,
     301, 284, 267, 250, 233, 216, 199, 182, 165, 148, 131, 113,
     96, 78, 61, 44, 26, 9, -9, -26, -44, -61, -78, -96,
     -113, -131, -148, -165, -182, -199, -216, -233, -250, -267, -284, -301,
     -317, -334, -350, -367, -383, -399, -415, -431, -446, -462, -477, -492,
     -508, -522, -537, -552, -566, -581, -595, -609, -623, -636, -649, -663,
     -676, -688, -701, -713, -725, -737, -749, -760, -772, -783, -793, -804,
     -814, -824, -834, -843, -853, -862, -870, -879, -887, -895, -903, -910,
     -917, -924, -930, -937, -943, -948, -954, -959, -964, -968, -972, -976,
     -980, -983, -986, -989, -991, -994, -995, -997, -998, -999, -1000, -1000 >>

\* Math.acos(num / den) * (180 / Math.PI), to the nearest degree; -1 for
\* the NaN of a zero denominator
AcosDeg(num, den) ==
  IF den \div 10 = 0 THEN -1
  ELSE LET c == (num * 100) \div (den \div 10)
       IN Cardinality({k \in 1..180 : c < CosHalfDeg[k]})

\* the four angles by the law of cosines, as isQuadrilateral computes them
QuadAngles(shape_pts) ==
  LET side1 == distance(shape_pts[1], shape_pts[2])
      side2 == distance(shape_pts[2], shape_pts[3])
      side3 == distance(shape_pts[3], shape_pts[4])
      side4 == distance(shape_pts[4], shape_pts[1])
      diag1 == distance(shape_pts[1], shape_pts[3])
      diag2 == distance(shape_pts[2], shape_pts[4])
  IN << AcosDeg(side1 * side1 + side4 * side4 - diag2 * diag2, 2 * side1 * side4),
        AcosDeg(side1 * side1 + side2 * side2 - diag1 * diag1, 2 * side1 * side2),
        AcosDeg(side2 * side2 + side3 * side3 - diag2 * diag2, 2 * side2 * side3),
        AcosDeg(side3 * side3 + side4 * side4 - diag1 * diag1, 2 * side3 * side4) >>

\* OpticalFlowTracker.isQuadrilateral: 4 vertices, angle sum within 5 degrees
\* of 360, every angle in (15, 165).  A NaN angle fails every comparison, so
\* it passes the sum test and fails the range test.
isQuadrilateral(shape_pts) ==
  IF Len(shape_pts) # 4 THEN FALSE
  ELSE LET a == QuadAngles(shape_pts)
       IN IF \E i \in 1..4 : a[i] = -1 THEN FALSE
          ELSE IF Abs(a[1] + a[2] + a[3] + a[4] - 360) > 5 THEN FALSE
          ELSE \A i \in 1..4 : a[i] > 15 /\ a[i] < 165

(***************************************************************************)
(* The point buffers.  curr_xy and prev_xy are Float32Array(2*MAX_CORNERS), *)
(* zero-filled at allocation.  A buffer is held as the sequence of its     *)
(* points up to the highest index ever written; the entries above it are   *)
(* the zeros of the allocation.  Indices are the code's (from 0).          *)
(***************************************************************************)
At(buf, i) == IF i + 1 <= Len(buf) THEN buf[i + 1] ELSE Pt(0, 0)

\* the first n points of the buffer
Points(buf, n) == Array([k \in 1..n |-> At(buf, k - 1)])

\* buf with points[1..n] stored at the indices 0..n-1
Store(buf, points, n) ==
  Array([k \in 1..Max(n, Len(buf)) |-> IF k <= n THEN points[k] ELSE buf[k]])

(***************************************************************************)
(* What the libraries report in one tracker call.                          *)
(*   motion : the frame-to-frame motion of the scene, a 3x3 matrix; LK     *)
(*            moves every point it is given by it, and a successful        *)
(*            RANSAC (and the refit on the inliers) returns it             *)
(*   status : which points LK tracked (point_status)                       *)
(*   ransac : "fail", or which points are inliers (match_mask)             *)
(* A mask is one of three shapes: every point, every point but the first,  *)
(* or only the first POINT_THRESHOLD - 1 points.                           *)
(***************************************************************************)
MaskKinds == {"all", "dropFirst", "few"}

MaskBit(kind, i) ==
  CASE kind = "all" -> 1
    [] kind = "dropFirst" -> IF i = 0 THEN 0 ELSE 1
    [] kind = "few" -> IF i < POINT_THRESHOLD - 1 THEN 1 ELSE 0

Translate(dx, dy) == <<1, 0, dx, 0, 1, dy, 0, 0, 1>>

\* x' = x + k * y
Shear(k) == <<1, k, 0, 0, 1, 0, 0, 0, 1>>

\* the indices 0..n-1 whose mask bit is set, in order
Kept(kind, n) ==
  SelectSeq(Array([k \in 1..n |-> k - 1]), LAMBDA i : MaskBit(kind, i) = 1)

(***************************************************************************)
(* OpticalFlowTracker.  A tracker state t is the record of its fields.     *)
(***************************************************************************)
\* the constructor and initializeDataStructures
TrackerInit ==
  [ point_count      |-> 0,
    prev_xy          |-> << >>,
    curr_xy          |-> << >>,
    previousCorners  |-> << >>,      \* << >> is the null of the code
    base_homography  |-> Identity3x3,
    homo3x3          |-> <<0, 0, 0, 0, 0, 0, 0, 0, 0>>,
    referenceWidth   |-> 0,
    referenceHeight  |-> 0 ]

\* initWithHomography(homography, points, width, height), width and height
\* given and not 0
initWithHomography(t, homography, points, width, height) ==
  LET n == Min(Len(points), MAX_CORNERS)
  IN [t EXCEPT !.point_count = n,
               !.previousCorners = << >>,
               !.base_homography = homography,
               !.referenceWidth = width,
               !.referenceHeight = height,
               !.curr_xy = Store(t.curr_xy, points, n)]

\* a faulty loseTracking: the previous corners survive the loss
loseTrackingKeepsCorners(t) ==
  [t EXCEPT !.point_count = 0,
            !.base_homography = Identity3x3]

\* loseTracking(): "point_count = 0; previousCorners = null; base_homography
\* = identity"
loseTracking(t) ==
  [t EXCEPT !.point_count = 0,
            !.previousCorners = << >>,
            !.base_homography = Identity3x3]

\* checkPointDensity() < limit: the mean distance over all pairs of the
\* first point_count entries of curr_xy, the quotient cross-multiplied
checkPointDensityBelow(t, limit) ==
  IF t.point_count < 2 THEN 0 < limit
  ELSE LET n == t.point_count
           p == Points(t.curr_xy, n)
           row == Array([i \in 1..n |->
                     SumTo(Array([j \in 1..n |->
                              IF j > i THEN distance(p[i], p[j]) ELSE 0]), n)])
           count == (n * (n - 1)) \div 2
       IN SumTo(row, n) < limit * count

\* jsfeat.optical_flow_lk.track(prev_img_pyr, curr_img_pyr, prev_xy, curr_xy,
\* point_count, ...): curr_xy[i] is where prev_xy[i] went
opticalFlowTrack(t, motion) ==
  LET prev == Points(t.prev_xy, t.point_count)
  IN [t EXCEPT !.curr_xy = Store(t.curr_xy,
                                 Array([k \in 1..t.point_count |-> ApplyH(motion, prev[k])]),
                                 t.point_count)]

\* pruneFlowPoints(): the points with point_status 1 moved to the front of
\* curr_xy and prev_xy
pruneFlowPoints(t, status) ==
  LET kept == Kept(status, t.point_count)
      j == Len(kept)
  IN [t EXCEPT !.curr_xy = Store(t.curr_xy, Array([k \in 1..j |-> At(t.curr_xy, kept[k])]), j),
               !.prev_xy = Store(t.prev_xy, Array([k \in 1..j |-> At(t.prev_xy, kept[k])]), j),
               !.point_count = j]

\* a faulty findTransform: the inliers are counted but not moved to the
\* front of curr_xy
findTransformKeepsOutliers(t, motion, ransac) ==
  IF ransac = "fail"
  THEN [t |-> [t EXCEPT !.homo3x3 = Identity3x3], ok |-> FALSE]
  ELSE LET good_cnt == Len(Kept(ransac, t.point_count))
           t1 == [t EXCEPT !.point_count = good_cnt, !.homo3x3 = motion]
       IN IF t1.point_count < GOOD_MATCH_THRESHOLD_TRACKING
          THEN [t |-> loseTracking(t1), ok |-> FALSE]
          ELSE [t |-> [t1 EXCEPT !.base_homography =
                                     multiply_3x3(t1.homo3x3, t1.base_homography)],
                ok |-> TRUE]

\* findTransform(): [t |-> the tracker afterwards, ok |-> the value returned]
findTransform(t, motion, ransac) ==
  IF ransac = "fail"
  THEN [t |-> [t EXCEPT !.homo3x3 = Identity3x3], ok |-> FALSE]
  ELSE LET kept == Kept(ransac, t.point_count)
           good_cnt == Len(kept)
           t1 == [t EXCEPT !.curr_xy = Store(t.curr_xy,
                                             Array([k \in 1..good_cnt |-> At(t.curr_xy, kept[k])]),
                                             good_cnt),
                           !.point_count = good_cnt,
                           !.homo3x3 = motion]
       IN IF t1.point_count < GOOD_MATCH_THRESHOLD_TRACKING
          THEN [t |-> loseTracking(t1), ok |-> FALSE]
          ELSE [t |-> [t1 EXCEPT !.base_homography =
                                     multiply_3x3(t1.homo3x3, t1.base_homography)],
                ok |-> TRUE]

\* transformImageCorners()
transformImageCorners(t) ==
  transformCorners(t.base_homography, t.referenceWidth, t.referenceHeight)

\* a faulty blend: the weights of the two quads exchanged
dampCornersExchanged(currentCorners, dampedCorners, currentOpticalFrame) ==
  Array([i \in 1..4 |->
     Pt((dampedCorners[i][1] * currentOpticalFrame
           + currentCorners[i][1] * (MAX_PERSIST_OPTICAL_FRAMES - currentOpticalFrame))
          \div MAX_PERSIST_OPTICAL_FRAMES,
        (dampedCorners[i][2] * currentOpticalFrame
           + currentCorners[i][2] * (MAX_PERSIST_OPTICAL_FRAMES - currentOpticalFrame))
          \div MAX_PERSIST_OPTICAL_FRAMES)])

\* the blend of processFrame when drawDampedBox is set
dampCorners(currentCorners, dampedCorners, currentOpticalFrame) ==
  Array([i \in 1..4 |->
     Pt((currentCorners[i][1] * currentOpticalFrame
           + dampedCorners[i][1] * (MAX_PERSIST_OPTICAL_FRAMES - currentOpticalFrame))
          \div MAX_PERSIST_OPTICAL_FRAMES,
        (currentCorners[i][2] * currentOpticalFrame
           + dampedCorners[i][2] * (MAX_PERSIST_OPTICAL_FRAMES - currentOpticalFrame))
          \div MAX_PERSIST_OPTICAL_FRAMES)])

\* "this.loseTracking(); return false": at names the test that failed
Lost(t, at) == [t |-> loseTracking(t), lost |-> TRUE, at |-> at, quad |-> << >>]

\* "return newDampedCorners"
Tracked(t, quad) == [t |-> t, lost |-> FALSE, at |-> "", quad |-> quad]

\* the part of processFrame after the density test
TrackerAfterDensity(t, env, drawDampedBox, dampedCorners, currentOpticalFrame) ==
  LET t2 == pruneFlowPoints(opticalFlowTrack(t, env.motion), env.status)
  IN IF t2.point_count < POINT_THRESHOLD THEN Lost(t2, "points")
     ELSE LET ft == findTransform(t2, env.motion, env.ransac)
          IN IF ~ft.ok THEN Lost(ft.t, IF env.ransac = "fail" THEN "ransac" ELSE "inliers")
             ELSE LET currentCorners == transformImageCorners(ft.t)
                      newDampedCorners ==
                        IF drawDampedBox
                        THEN dampCorners(currentCorners, dampedCorners, currentOpticalFrame)
                        ELSE currentCorners
                  IN IF ft.t.previousCorners # << >>
                     THEN IF AverageCornerMovementExceeds(currentCorners,
                                                          ft.t.previousCorners,
                                                          PRUNE_THRESHOLD)
                          THEN Lost(ft.t, "movement")
                          ELSE Tracked(ft.t, newDampedCorners)
                     ELSE Tracked([ft.t EXCEPT !.previousCorners = currentCorners],
                                  newDampedCorners)

\* the swap that opens processFrame
swapBuffers(t) == [t EXCEPT !.prev_xy = t.curr_xy, !.curr_xy = t.prev_xy]

\* OpticalFlowTracker.processFrame(imageData, drawDampedBox, dampedCorners,
\* currentOpticalFrame): [t |-> the tracker afterwards, lost |-> whether false
\* was returned, at |-> the test that lost it, quad |-> the corners returned
\* otherwise]
TrackerProcessFrame(t, env, drawDampedBox, dampedCorners, currentOpticalFrame) ==
  LET t1 == swapBuffers(t)
  IN IF checkPointDensityBelow(t1, DENSITY_LIMIT) THEN Lost(t1, "density")
     ELSE TrackerAfterDensity(t1, env, drawDampedBox, dampedCorners, currentOpticalFrame)

(***************************************************************************)
(* The reference image and the trained pattern.                            *)
(***************************************************************************)
\* the sizes (width, height) of the reference image the embedder may load
RefImages == { <<512, 128>>, <<1024, 255>> }

\* Math.floor(dim * Math.min(max_size / width, max_size / height))
ScaledDim(dim, width, height) ==
  IF width >= height THEN (dim * MAX_PATTERN_SIZE) \div width
                     ELSE (dim * MAX_PATTERN_SIZE) \div height

\* trainPattern: the preview is lev0 halved, new_width >> 1 by new_height >> 1
PreviewOf(img) ==
  [ cols |-> ScaledDim(img[1], img[1], img[2]) \div 2,
    rows |-> ScaledDim(img[2], img[1], img[2]) \div 2 ]

\* PointData before setPoints: preview null (cols = 0 stands for it)
NoPreview == [cols |-> 0, rows |-> 0]

(***************************************************************************)
(* FeatureDetector.  What the libraries report in one detector call:       *)
(*   num_matches : the matches matchPattern produced                       *)
(*   ransac      : "fail" or "ok"                                          *)
(*   good_cnt    : the inliers RANSAC kept (good_cnt <= num_matches)       *)
(*   H           : the homography of the refit on the inliers              *)
(*   layout      : where the matched keypoints lie on the pattern          *)
(***************************************************************************)
\* keypoint i of the pattern, in lev0 pixels: a 6-column grid over the
\* pattern ("spread"), or a patch a few pixels wide ("tight")
PatternPoint(layout, i) ==
  IF layout = "spread" THEN Pt(16 + 96 * (i % 6), 16 + 32 * (i \div 6))
                       ELSE Pt(250 + (i % 6), 60 + (i \div 6))

\* the pose the detector may find: the pattern shifted, or shifted and
\* sheared flat
PoseShift == Translate(40, 20)

PoseShear == multiply_3x3(Translate(40, 20), Shear(5))

\* a detector call in which RANSAC succeeded
DetOk(g, h, l) ==
  [num_matches |-> POINT_THRESHOLD + 4, ransac |-> "ok", good_cnt |-> g,
   H |-> h, layout |-> l]

\* the detector calls that find the pattern
FoundEnvs ==
  { DetOk(GOOD_MATCH_THRESHOLD_TRACKING + 1, PoseShift, "spread"),
    DetOk(GOOD_MATCH_THRESHOLD_TRACKING, PoseShear, "tight") }

\* what the libraries may report in a detector call: too few matches, or
\* one of FoundEnvs
DetEnvs ==
  { [num_matches |-> POINT_THRESHOLD - 1, ransac |-> "ok", good_cnt |-> 0,
     H |-> Identity3x3, layout |-> "spread"] }
  \cup FoundEnvs

DetectorInit ==
  [ found |-> FALSE,
    homo3x3 |-> <<0, 0, 0, 0, 0, 0, 0, 0, 0>>,
    good_screen_points |-> << >> ]

\* a faulty findTransform: when RANSAC fails the count of the matches is
\* returned
detectorFindTransformCountsMatches(d, env) ==
  IF env.ransac = "fail"
  THEN [d |-> [d EXCEPT !.homo3x3 = Identity3x3], good |-> env.num_matches]
  ELSE [d |-> [d EXCEPT !.good_screen_points =
                          Array([k \in 1..env.good_cnt |->
                                   ApplyH(env.H, PatternPoint(env.layout, k - 1))]),
                        !.homo3x3 = env.H],
        good |-> env.good_cnt]

\* FeatureDetector.findTransform(matches, count):
\* [d |-> the detector afterwards, good |-> the count returned]
detectorFindTransform(d, env) ==
  IF env.ransac = "fail"
  THEN [d |-> [d EXCEPT !.homo3x3 = Identity3x3], good |-> 0]
  ELSE [d |-> [d EXCEPT !.good_screen_points =
                          Array([k \in 1..env.good_cnt |->
                                   ApplyH(env.H, PatternPoint(env.layout, k - 1))]),
                        !.homo3x3 = env.H],
        good |-> env.good_cnt]

\* FeatureDetector.processImage: [d |-> the detector afterwards, found,
\* homography, goodScreenPoints, corners |-> the fields of the result,
\* good_matches |-> the local variable of that name]
detectorProcessImage(d, patternPreview, env) ==
  LET d0 == [d EXCEPT !.found = FALSE]
      ft == IF patternPreview # NoPreview /\ env.num_matches >= POINT_THRESHOLD
            THEN detectorFindTransform(d0, env)
            ELSE [d |-> d0, good |-> 0]
      d1 == [ft.d EXCEPT !.found = (ft.good >= GOOD_MATCH_THRESHOLD_TRACKING)]
      shape_pts == IF patternPreview # NoPreview
                   THEN transformCorners(d1.homo3x3, patternPreview.cols * 2,
                                         patternPreview.rows * 2)
                   ELSE << >>
  IN [ d |-> d1,
       found |-> d1.found,
       homography |-> d1.homo3x3,
       goodScreenPoints |-> d1.good_screen_points,
       corners |-> shape_pts,
       good_matches |-> ft.good ]

(***************************************************************************)
(* WebGLVideoRenderer: the fields the pipeline drives.                     *)
(***************************************************************************)
RendererInit ==
  [ isWebGLInitialized |-> FALSE,
    hasVideo           |-> FALSE,   \* overlayVideoElement is set
    paused             |-> TRUE,    \* overlayVideoElement.paused
    isDetecting        |-> TRUE,
    isOverlayVisible   |-> FALSE ]

\* WebGLVideoRenderer.initialize(), ok: the WebGL context was obtained
rendererInitialize(r, ok) ==
  IF ok THEN [r EXCEPT !.isWebGLInitialized = TRUE, !.hasVideo = TRUE]
        ELSE r

updateVideoPlayback(r) ==
  IF ~r.hasVideo THEN r
  ELSE IF r.isDetecting THEN [r EXCEPT !.paused = TRUE]
       ELSE [r EXCEPT !.paused = FALSE]

setDetectionState(r, isDetecting) ==
  updateVideoPlayback([r EXCEPT !.isDetecting = isDetecting])

\* WebGLVideoRenderer.render(cornerPoints), cornerPoints an array of 4
rendererRender(r, cornerPoints) ==
  IF ~r.isWebGLInitialized THEN r
  ELSE LET r1 == [r EXCEPT !.isOverlayVisible = (cornerPoints[1][1] # 0)]
       IN IF r1.isOverlayVisible /\ ~r1.isDetecting THEN updateVideoPlayback(r1)
          ELSE IF r1.isDetecting /\ r1.hasVideo /\ ~r1.paused
               THEN [r1 EXCEPT !.paused = TRUE]
               ELSE r1

(***************************************************************************)
(* CameraService: the camera and its capture loop.                         *)
(***************************************************************************)

\* The CameraService as its constructor leaves it:
\*   stream         : this.stream is not null
\*   isCapturing    : this.isCapturing
\*   frameRequestId : this.frameRequestId, 0 for null
\*   rafPending     : the browser holds the requested animation frame
\*   notified       : the type of the last event given to the listeners
\*   captured       : the "frame" events given to the listeners so far
\*   reinit         : "released" between the release and the initialize of
\*                    reinitializeAfterOrientationChange, otherwise "none"
\*   wasCapturing   : isCapturing when that reinitialisation began (history)
CameraInit ==
  [stream |-> FALSE, isCapturing |-> FALSE, frameRequestId |-> 0,
   rafPending |-> FALSE, notified |-> "none", captured |-> 0,
   reinit |-> "none", wasCapturing |-> FALSE]

\* CameraService.initialize(): getUserMedia gives a stream and the video
\* plays ("ok"), getUserMedia is rejected twice ("denied"), or the stream is
\* there and the video does not play within the timeout ("timeout").  The
\* listeners are told, and an error is thrown again to the caller.
cameraInitialize(c, outcome) ==
  [ok |-> outcome = "ok",
   c  |-> [c EXCEPT !.stream = IF outcome = "denied" THEN c.stream ELSE TRUE,
                    !.notified = IF outcome = "ok" THEN "initialized"
                                 ELSE "error"]]

\* CameraService.stopCapturing(): cancelAnimationFrame of a request that has
\* already run does nothing.
stopCapturing(c) ==
  [c EXCEPT !.isCapturing = FALSE,
            !.frameRequestId = 0,
            !.rafPending = IF c.frameRequestId # 0 THEN FALSE
                           ELSE c.rafPending]

\* CameraService.release().  The removeEventListener calls are given newly
\* bound functions, so the listeners of the constructor stay.
release(c) ==
  [stopCapturing(c) EXCEPT !.stream = FALSE]

\* CameraService.captureFrame(): ready is whether the video has enough data
\* and is not paused.
captureFrame(c, ready) ==
  LET told == [c EXCEPT !.notified = IF ready THEN "frame" ELSE "waiting",
                        !.captured = IF ready THEN Min(c.captured + 1, MaxRun)
                                     ELSE c.captured]
  IN  IF told.isCapturing
      THEN [told EXCEPT !.frameRequestId = 1, !.rafPending = TRUE]
      ELSE told

\* CameraService.startCapturing()
startCapturing(c, ready) ==
  IF c.isCapturing THEN c
  ELSE captureFrame([c EXCEPT !.isCapturing = TRUE], ready)

(***************************************************************************)
(* App: the orchestrator.                                                  *)
(***************************************************************************)
VARIABLES
  isInitialized,             \* App.isInitialized
  initCalled,                \* the embedder's "await app.initialize()" has returned
  training,                  \* startImageProcessing: "idle", "pending", "done", "failed"
  pointData,                 \* PointData.preview
  refImg,                    \* the reference image, (width, height)
  isDetecting,               \* App.isDetecting
  opticalPersistFrameCount,  \* App.opticalPersistFrameCount
  lastOpticalCorners,        \* App.lastOpticalCorners
  glCanvasDisplay,           \* glCanvas.style.display
  animationFrameId,          \* App.animationFrameId, 0 for null
  rafPending,                \* the browser holds a requested animation frame
  detector,                  \* the FeatureDetector
  tracker,                   \* the OpticalFlowTracker
  renderer,                  \* the WebGLVideoRenderer
  tick,                      \* what the last processFrame did (see NoTick)
  failRun,                   \* consecutive ticks whose detection failed
  staleRun,                  \* consecutive such ticks that rendered the stored quad
  idealRun,                  \* consecutive ticks of an undisturbed detect-then-track run
  call,                      \* a call of a library function on its own (see NoCall)
  camera                     \* the CameraService (see CameraInit)

\* the variables of the application and its objects
appVars == << isInitialized, initCalled, training, pointData, refImg, isDetecting,
              opticalPersistFrameCount, lastOpticalCorners, glCanvasDisplay,
              animationFrameId, rafPending, detector, tracker, renderer, tick,
              failRun, staleRun, idealRun >>

vars == << appVars, call, camera >>

\* The record of the last processFrame call:
\*   ran       : whether a processFrame has run at all
\*   detector  : "none", "found" or "failed"
\*   tracker   : "none", "quad" or "lost"
\*   lostAt    : the test of the tracker that lost the pattern, or ""
\*   rendered  : the arguments of videoOverlayRenderer.render, in order
\*   told      : the arguments of videoOverlayRenderer.setDetectionState
NoTick ==
  [ ran |-> FALSE, detector |-> "none", tracker |-> "none", lostAt |-> "",
    rendered |-> << >>, told |-> << >> ]

\* The record of a call of one of the functions of the libraries, made on
\* its own: fn the function, done whether it has returned, and the arguments
\* and the value returned as the fields its section below names.  NoCall: no
\* such call is made.  The embedder's call of App.cleanup() is recorded in
\* it as well.
NoCall == [fn |-> "", done |-> FALSE]

\* the application, the detector, the tracker and the renderer as their
\* constructors leave them
Constructed ==
  /\ isInitialized = FALSE
  /\ initCalled = FALSE
  /\ training = "idle"
  /\ pointData = NoPreview
  /\ refImg \in RefImages
  /\ isDetecting = FALSE
  /\ opticalPersistFrameCount = 0
  /\ lastOpticalCorners = << >>
  /\ glCanvasDisplay = "initial"
  /\ animationFrameId = 0
  /\ rafPending = FALSE
  /\ detector = DetectorInit
  /\ tracker = TrackerInit
  /\ renderer = RendererInit
  /\ tick = NoTick
  /\ failRun = 0
  /\ staleRun = 0
  /\ idealRun = 0
  /\ camera = CameraInit

Init ==
  /\ Constructed
  /\ call = NoCall

\* App.initialize(): the camera may fail to initialise (the error is caught
\* and isInitialized stays false); the renderer may fail to get WebGL.
\* startImageProcessing() is started and not awaited.
Initialize(cameraOk, webglOk) ==
  /\ ~initCalled
  /\ initCalled' = TRUE
  /\ IF cameraOk
     THEN /\ isInitialized' = TRUE
          /\ renderer' = rendererInitialize(renderer, webglOk)
          /\ glCanvasDisplay' = "block"
          /\ training' = "pending"
     ELSE UNCHANGED << isInitialized, renderer, glCanvasDisplay, training >>
  /\ UNCHANGED << camera, pointData, refImg, isDetecting, opticalPersistFrameCount,
                  lastOpticalCorners, animationFrameId, rafPending, detector,
                  tracker, tick, failRun, staleRun, idealRun, call >>

\* startImageProcessing(), after "await processImageUrl()" resolved
TrainingDone ==
  /\ training = "pending"
  /\ training' = "done"
  /\ pointData' = PreviewOf(refImg)
  /\ isDetecting' = TRUE
  /\ UNCHANGED << camera, isInitialized, initCalled, refImg, opticalPersistFrameCount,
                  lastOpticalCorners, glCanvasDisplay, animationFrameId, rafPending,
                  detector, tracker, renderer, tick, failRun, staleRun, idealRun, call >>

\* a faulty catch: the application starts detecting although the training
\* failed
TrainingFailedStartsDetecting ==
  /\ training = "pending"
  /\ training' = "failed"
  /\ isDetecting' = TRUE
  /\ UNCHANGED << camera, isInitialized, initCalled, pointData, refImg,
                  opticalPersistFrameCount, lastOpticalCorners, glCanvasDisplay,
                  animationFrameId, rafPending, detector, tracker, renderer, tick,
                  failRun, staleRun, idealRun, call >>

\* startImageProcessing(), "await processImageUrl()" rejected: the catch
TrainingFailed ==
  /\ training = "pending"
  /\ training' = "failed"
  /\ UNCHANGED << camera, isInitialized, initCalled, pointData, refImg, isDetecting,
                  opticalPersistFrameCount, lastOpticalCorners, glCanvasDisplay,
                  animationFrameId, rafPending, detector, tracker, renderer, tick,
                  failRun, staleRun, idealRun, call >>

\* a tracker call's report
TrackEnv(m, s, r) == [motion |-> m, status |-> s, ransac |-> r]

\* what the libraries may report in a tracker call of the application: the
\* scene still or moved 2 px to the right with every point kept, or RANSAC
\* failing
TrackEnvs ==
  { TrackEnv(Identity3x3, "all", "all"),
    TrackEnv(Translate(2, 0), "all", "all"),
    TrackEnv(Identity3x3, "all", "fail") }

\* ... and in a call of the tracker alone: also the scene jumping, a point
\* lost by LK or by RANSAC, and too few points left by either
TrackerEnvs ==
  TrackEnvs \cup
  { TrackEnv(Translate(30, 0), "all", "all"),
    TrackEnv(Identity3x3, "dropFirst", "all"),
    TrackEnv(Identity3x3, "all", "dropFirst"),
    TrackEnv(Identity3x3, "few", "fail"),
    TrackEnv(Identity3x3, "all", "few") }

\* the reports of the frames in which the detector, the tracker is not called
NoDetEnv == DetOk(0, Identity3x3, "none")

NoTrackEnv == TrackEnv(Identity3x3, "none", "none")

\* a faulty increment: the test admits the limit itself
incrementPersistPastLimit(count) ==
  IF count <= PERSIST_COUNT_LIMIT THEN count + 1 ELSE count

\* a faulty increment: the counter is never advanced
incrementPersistNever(count) == count

\* "this.opticalPersistFrameCount < 10 && this.opticalPersistFrameCount++"
incrementPersist(count) ==
  IF count < PERSIST_COUNT_LIMIT THEN count + 1 ELSE count

\* a faulty test: the stale quad is shown at the limit too
persistAllowedAtLimit(count, corners) ==
  count <= MAX_PERSIST_OPTICAL_FRAMES /\ Len(corners) > 0

\* "opticalPersistFrameCount < CONFIG.MAX_PERSIST_OPTICAL_FRAMES &&
\* lastOpticalCorners.length > 0": the stale quad is shown
persistAllowed(count, corners) ==
  count < MAX_PERSIST_OPTICAL_FRAMES /\ Len(corners) > 0

\* refWidth, refHeight of processFrame: the reference image scaled to
\* MAX_PATTERN_SIZE
RefWidth(img) == ScaledDim(img[1], img[1], img[2])

RefHeight(img) == ScaledDim(img[2], img[1], img[2])

\* The orchestrator's state within a tick is the record a:
\*   isDetecting, count, corners, display, detector, tracker, renderer, log
\* render(a, q): videoOverlayRenderer.render(q) and its record in the log
render(a, q) ==
  [a EXCEPT !.renderer = rendererRender(a.renderer, q),
            !.log.rendered = Append(a.log.rendered, q)]

\* a faulty first branch: a detection does not store the detector's corners
detectPhaseDropsCorners(a, preview, img, denv) ==
  LET det == detectorProcessImage(a.detector, preview, denv)
      a1 == [a EXCEPT !.detector = det.d]
  IN IF det.found
     THEN [a1 EXCEPT !.display = "block",
                     !.tracker = initWithHomography(a.tracker, det.homography,
                                                    det.goodScreenPoints,
                                                    RefWidth(img), RefHeight(img)),
                     !.isDetecting = FALSE,
                     !.corners = << >>,
                     !.log.detector = "found"]
     ELSE IF persistAllowed(a1.count, a1.corners)
          THEN render([a1 EXCEPT !.log.detector = "failed"], a1.corners)
          ELSE [a1 EXCEPT !.display = "none",
                          !.corners = << >>,
                          !.log.detector = "failed"]

\* a faulty first branch: a detection renders the detector's corners itself
detectPhaseRendersFound(a, preview, img, denv) ==
  LET det == detectorProcessImage(a.detector, preview, denv)
      a1 == [a EXCEPT !.detector = det.d]
  IN IF det.found
     THEN render([a1 EXCEPT !.display = "block",
                            !.tracker = initWithHomography(a.tracker, det.homography,
                                                           det.goodScreenPoints,
                                                           RefWidth(img), RefHeight(img)),
                            !.isDetecting = FALSE,
                            !.corners = det.corners,
                            !.log.detector = "found"],
                 det.corners)
     ELSE IF persistAllowed(a1.count, a1.corners)
          THEN render([a1 EXCEPT !.log.detector = "failed"], a1.corners)
          ELSE [a1 EXCEPT !.display = "none",
                          !.corners = << >>,
                          !.log.detector = "failed"]

\* processFrame, the branch "if (this.isDetecting)"
detectPhase(a, preview, img, denv) ==
  LET det == detectorProcessImage(a.detector, preview, denv)
      a1 == [a EXCEPT !.detector = det.d]
  IN IF det.found
     THEN [a1 EXCEPT !.display = "block",
                     !.tracker = initWithHomography(a.tracker, det.homography,
                                                    det.goodScreenPoints,
                                                    RefWidth(img), RefHeight(img)),
                     !.isDetecting = FALSE,
                     !.corners = det.corners,
                     !.log.detector = "found"]
     ELSE IF persistAllowed(a1.count, a1.corners)
          THEN render([a1 EXCEPT !.log.detector = "failed"], a1.corners)
          ELSE [a1 EXCEPT !.display = "none",
                          !.corners = << >>,
                          !.log.detector = "failed"]

\* a faulty second branch: a lost tracker leaves the counter as it is
trackPhaseKeepsCount(a, tenv) ==
  LET drawDampedBox == a.count <= MAX_PERSIST_OPTICAL_FRAMES
      res == TrackerProcessFrame(a.tracker, tenv, drawDampedBox, a.corners, a.count)
      a1 == [a EXCEPT !.tracker = res.t]
  IN IF res.lost
     THEN LET a2 == render([a1 EXCEPT !.log.tracker = "lost", !.log.lostAt = res.at],
                           a1.corners)
          IN [a2 EXCEPT !.isDetecting = TRUE]
     ELSE LET a2 == render([a1 EXCEPT !.log.tracker = "quad"], res.quad)
          IN [a2 EXCEPT !.renderer = setDetectionState(a2.renderer, a2.isDetecting),
                        !.log.told = Append(a2.log.told, a2.isDetecting),
                        !.corners = res.quad]

\* processFrame, the branch "if (!this.isDetecting && lastOpticalCorners.length > 0)"
trackPhase(a, tenv) ==
  LET drawDampedBox == a.count <= MAX_PERSIST_OPTICAL_FRAMES
      res == TrackerProcessFrame(a.tracker, tenv, drawDampedBox, a.corners, a.count)
      a1 == [a EXCEPT !.tracker = res.t]
  IN IF res.lost
     THEN LET a2 == render([a1 EXCEPT !.log.tracker = "lost", !.log.lostAt = res.at],
                           a1.corners)
          IN [a2 EXCEPT !.isDetecting = TRUE, !.count = 0]
     ELSE LET a2 == render([a1 EXCEPT !.log.tracker = "quad"], res.quad)
          IN [a2 EXCEPT !.renderer = setDetectionState(a2.renderer, a2.isDetecting),
                        !.log.told = Append(a2.log.told, a2.isDetecting),
                        !.corners = res.quad]

\* whether the second branch of processFrame is taken
tracksNow(a) == ~a.isDetecting /\ Len(a.corners) > 0

\* App.processFrame() without its last line, on the orchestrator's state a
runFrame(a, preview, img, denv, tenv) ==
  LET a0 == [a EXCEPT !.count = incrementPersist(a.count)]
      a1 == IF a0.isDetecting THEN detectPhase(a0, preview, img, denv) ELSE a0
  IN IF tracksNow(a1) THEN trackPhase(a1, tenv) ELSE a1

\* the tick's part of an undisturbed detect-then-track run: the detector
\* found the pattern on well-spread points, or the pattern moved by 2 px,
\* and LK and RANSAC kept every point
IdealEnv == TrackEnv(Translate(2, 0), "all", "all")

nextIdealRun(run, log, denv, tenv) ==
  IF log.detector = "found" /\ denv.layout = "spread"
       /\ tenv.status = "all" /\ tenv.ransac = "all"
  THEN 1
  ELSE IF run >= 1 /\ run < IdealFrames /\ log.detector = "none"
            /\ log.tracker # "none" /\ tenv = IdealEnv
       THEN run + 1
       ELSE 0

\* whether the frame with the detector report denv calls the tracker: the
\* detector found the pattern, or the frame began in tracking with a quad
tracksAfter(denv) ==
  IF isDetecting
  THEN detectorProcessImage(detector, pointData, denv).found
  ELSE Len(lastOpticalCorners) > 0

\* consecutive frames whose detection failed
nextFailRun(run, log) ==
  IF log.detector = "failed" THEN Min(run + 1, MaxRun) ELSE 0

\* consecutive frames that showed the stored quad and had no new one: the
\* detection failed and the quad persisted, or the tracker lost the pattern
\* it was tracking
nextStaleRun(run, log) ==
  IF \/ log.detector = "failed" /\ log.rendered # << >>
     \/ log.detector = "none" /\ log.tracker = "lost"
  THEN Min(run + 1, MaxRun)
  ELSE 0

\* App.processFrame(): called once by the embedder after initialize()
\* returned, and then by every animation frame it requested
ProcessFrame ==
  /\ \/ initCalled /\ ~tick.ran /\ animationFrameId = 0 /\ ~rafPending
     \/ rafPending
  /\ \E denv \in (IF isDetecting THEN DetEnvs ELSE {NoDetEnv}) :
     \E tenv \in (IF tracksAfter(denv) THEN TrackEnvs ELSE {NoTrackEnv}) :
       LET a == [ isDetecting |-> isDetecting,
                  count |-> opticalPersistFrameCount,
                  corners |-> lastOpticalCorners,
                  display |-> glCanvasDisplay,
                  detector |-> detector,
                  tracker |-> tracker,
                  renderer |-> renderer,
                  log |-> [NoTick EXCEPT !.ran = TRUE] ]
       IN \E b \in {runFrame(a, pointData, refImg, denv, tenv)} :
          /\ b.tracker.base_homography[3] <= MaxX
          /\ isDetecting' = b.isDetecting
          /\ opticalPersistFrameCount' = b.count
          /\ lastOpticalCorners' = b.corners
          /\ glCanvasDisplay' = b.display
          /\ detector' = b.detector
          /\ tracker' = b.tracker
          /\ renderer' = b.renderer
          /\ tick' = b.log
          /\ failRun' = nextFailRun(failRun, b.log)
          /\ staleRun' = nextStaleRun(staleRun, b.log)
          /\ idealRun' = nextIdealRun(idealRun, b.log, denv, tenv)
  /\ animationFrameId' = 1
  /\ rafPending' = TRUE
  /\ UNCHANGED << camera, isInitialized, initCalled, training, pointData, refImg, call >>

\* a faulty cleanup: the id is forgotten but the request is not cancelled
CleanupKeepsRequest ==
  /\ tick.ran
  /\ animationFrameId # 0
  /\ animationFrameId' = 0
  /\ call' = [fn |-> "cleanup", done |-> TRUE]
  /\ UNCHANGED << camera, isInitialized, initCalled, training, pointData, refImg, isDetecting,
                  opticalPersistFrameCount, lastOpticalCorners, glCanvasDisplay,
                  rafPending, detector, tracker, renderer, tick, failRun, staleRun,
                  idealRun >>

\* App.cleanup(): the embedder's beforeunload handler, registered after the
\* first processFrame() returned; it runs between two frames
Cleanup ==
  /\ tick.ran
  /\ animationFrameId # 0
  /\ rafPending' = FALSE
  /\ animationFrameId' = 0
  /\ call' = [fn |-> "cleanup", done |-> TRUE]
  /\ UNCHANGED << camera, isInitialized, initCalled, training, pointData, refImg, isDetecting,
                  opticalPersistFrameCount, lastOpticalCorners, glCanvasDisplay,
                  detector, tracker, renderer, tick, failRun, staleRun, idealRun >>

Next ==
  \/ \E cameraOk \in BOOLEAN, webglOk \in BOOLEAN : Initialize(cameraOk, webglOk)
  \/ TrainingDone
  \/ TrainingFailed
  \/ ProcessFrame
  \/ Cleanup

Spec == Init /\ [][Next]_vars

(***************************************************************************)
(* The OpticalFlowTracker on its own, driven through its public methods by *)
(* any caller; tick is the record of the last call.                        *)
(***************************************************************************)
\* the frame numbers a caller passes as currentOpticalFrame
CallerFrames == { 1, MAX_PERSIST_OPTICAL_FRAMES, PERSIST_COUNT_LIMIT }

\* tracker.initWithHomography(homography, points, width, height) with the
\* result of a detection; the caller keeps the detector's corners
TrackerSeed ==
  \E denv \in FoundEnvs :
    \E det \in {detectorProcessImage(detector, PreviewOf(refImg), denv)} :
      /\ tracker' = initWithHomography(tracker, det.homography, det.goodScreenPoints,
                                       RefWidth(refImg), RefHeight(refImg))
      /\ lastOpticalCorners' = det.corners
      /\ tick' = [NoTick EXCEPT !.ran = TRUE, !.detector = "found"]
      /\ call' = NoCall
      /\ UNCHANGED << camera, isInitialized, initCalled, training, pointData, refImg,
                      isDetecting, opticalPersistFrameCount, glCanvasDisplay,
                      animationFrameId, rafPending, detector, renderer,
                      failRun, staleRun, idealRun >>

\* the quad transformImageCorners returns in the call of processFrame that
\* begins with the tracker t and meets env, res what the call returns; << >>
\* if the call does not get that far
projectedCorners(t, env, res) ==
  IF res.lost /\ res.at # "movement" THEN << >>
  ELSE transformCorners(multiply_3x3(env.motion, t.base_homography),
                        t.referenceWidth, t.referenceHeight)

\* tracker.processFrame(imageData, drawDampedBox, dampedCorners, frame), the
\* libraries reporting one of envs and the caller passing one of frames; the
\* caller keeps the quad it got, and call is the record of the call: env
\* what the libraries reported, currentCorners the quad the tracker
\* projected in it
TrackerFrameIn(envs, frames) ==
  /\ Len(lastOpticalCorners) > 0
  /\ \E env \in envs, frame \in frames :
       \E res \in {TrackerProcessFrame(tracker, env, frame <= MAX_PERSIST_OPTICAL_FRAMES,
                                       lastOpticalCorners, frame)} :
         /\ res.t.base_homography[3] <= MaxX
         /\ tracker' = res.t
         /\ lastOpticalCorners' = IF res.lost THEN lastOpticalCorners ELSE res.quad
         /\ tick' = [NoTick EXCEPT !.ran = TRUE,
                                   !.tracker = IF res.lost THEN "lost" ELSE "quad",
                                   !.lostAt = res.at]
         /\ call' = [fn |-> "processFrame", done |-> TRUE, env |-> env,
                     currentCorners |-> projectedCorners(tracker, env, res)]
  /\ UNCHANGED << camera, isInitialized, initCalled, training, pointData, refImg,
                  isDetecting, opticalPersistFrameCount, glCanvasDisplay,
                  animationFrameId, rafPending, detector, renderer,
                  failRun, staleRun, idealRun >>

TrackerFrame == TrackerFrameIn(TrackerEnvs, CallerFrames)

NextTracker ==
  \/ TrackerSeed
  \/ TrackerFrame

SpecTracker == Init /\ [][NextTracker]_vars

(***************************************************************************)
(* The OpticalFlowTracker followed through a slow drift of the scene: LK   *)
(* and RANSAC keep every point, and the caller passes the frame number at  *)
(* which the blend returns the tracker's quad.                             *)
(***************************************************************************)
\* the scene still, or moved 2 px to the right, or 12 px down
DriftEnvs ==
  { TrackEnv(Identity3x3, "all", "all"),
    TrackEnv(Translate(2, 0), "all", "all"),
    TrackEnv(Translate(0, 12), "all", "all") }

TrackerDriftFrame == TrackerFrameIn(DriftEnvs, {MAX_PERSIST_OPTICAL_FRAMES})

NextDrift ==
  \/ TrackerSeed
  \/ TrackerDriftFrame

SpecDrift == Init /\ [][NextDrift]_vars

(***************************************************************************)
(* The FeatureDetector on its own, driven through processImage by any      *)
(* caller; call is the record of the last call.                            *)
(***************************************************************************)
\* what the libraries may report in a call of the detector alone: RANSAC
\* failing, or succeeding with as many inliers as matches or fewer
DetectorEnvs ==
  { [num_matches |-> n, ransac |-> "fail", good_cnt |-> 0, H |-> Identity3x3,
     layout |-> "spread"] :
      n \in {0, POINT_THRESHOLD - 1, POINT_THRESHOLD, POINT_THRESHOLD + 4} }
  \cup
  { e \in [num_matches : {POINT_THRESHOLD - 1, POINT_THRESHOLD, POINT_THRESHOLD + 4},
           ransac : {"ok"},
           good_cnt : {4, GOOD_MATCH_THRESHOLD_TRACKING - 1,
                       GOOD_MATCH_THRESHOLD_TRACKING,
                       GOOD_MATCH_THRESHOLD_TRACKING + 4},
           H : {PoseShift, PoseShear},
           layout : {"spread"}] :
      e.good_cnt <= e.num_matches }

\* detector.processImage(imageData, corners, descriptors, patternPreview),
\* before the pattern is trained (no preview) or after
DetectorFrame ==
  /\ \E patternPreview \in {NoPreview, PreviewOf(refImg)}, env \in DetectorEnvs :
       \E res \in {detectorProcessImage(detector, patternPreview, env)} :
         /\ detector' = res.d
         /\ call' = [fn |-> "processImage", done |-> TRUE,
                     patternPreview |-> patternPreview, env |-> env,
                     found |-> res.found, homography |-> res.homography,
                     good_matches |-> res.good_matches]
  /\ UNCHANGED << camera, isInitialized, initCalled, training, pointData, refImg,
                  isDetecting, opticalPersistFrameCount, lastOpticalCorners,
                  glCanvasDisplay, animationFrameId, rafPending, tracker, renderer,
                  tick, failRun, staleRun, idealRun >>

NextDetector ==
  \/ DetectorFrame

SpecDetector == Init /\ [][NextDetector]_vars

(***************************************************************************)
(* 32-bit words.  The bitwise operators of JavaScript take the ToInt32 of  *)
(* their operands; +, - and * are those of the doubles.  In popcnt32 every *)
(* double stays below 2^53 in magnitude, so it is exact and its ToInt32 is *)
(* its residue modulo 2^32: a number is held as that residue, the tuple of *)
(* its 32 bits, bit 0 first.                                               *)
(***************************************************************************)
WORD_BITS == 32

\* the word of n, 0 <= n < 2^31
WordOf(n) ==
  Array([i \in 1..WORD_BITS |-> IF i = WORD_BITS THEN 0 ELSE (n \div 2^(i - 1)) % 2])

\* a & b
BitAnd(a, b) == Array([i \in 1..WORD_BITS |-> a[i] * b[i]])

\* a ^ b
BitXor(a, b) == Array([i \in 1..WORD_BITS |-> (a[i] + b[i]) % 2])

\* a >> k, the shift that copies the sign bit
Sar(a, k) ==
  Array([i \in 1..WORD_BITS |-> IF i + k <= WORD_BITS THEN a[i + k] ELSE a[WORD_BITS]])

\* a << k
Shl(a, k) == Array([i \in 1..WORD_BITS |-> IF i - k >= 1 THEN a[i - k] ELSE 0])

RECURSIVE AddFrom(_, _, _, _)
\* the bits i.. of a + b + c, c the carry into bit i
AddFrom(a, b, i, c) ==
  IF i > WORD_BITS THEN << >>
  ELSE << (a[i] + b[i] + c) % 2 >> \o AddFrom(a, b, i + 1, (a[i] + b[i] + c) \div 2)

\* a + b
Add32(a, b) == AddFrom(a, b, 1, 0)

\* a - b: a plus the two's complement of b
Sub32(a, b) == AddFrom(a, Array([i \in 1..WORD_BITS |-> 1 - b[i]]), 1, 1)

RECURSIVE MulFrom(_, _, _)
\* a times the bits i.. of b
MulFrom(a, b, i) ==
  IF i > WORD_BITS THEN WordOf(0)
  ELSE IF b[i] = 1 THEN Add32(Shl(a, i - 1), MulFrom(a, b, i + 1))
       ELSE MulFrom(a, b, i + 1)

\* a * b
Mul32(a, b) == MulFrom(a, b, 1)

\* the int32 a word stands for, for the words within -2^30 .. 2^30
Int32Of(a) ==
  IF a[WORD_BITS] = 0
  THEN SumTo(Array([i \in 1..WORD_BITS - 1 |-> a[i] * 2^(i - 1)]), WORD_BITS - 1)
  ELSE -1 - SumTo(Array([i \in 1..WORD_BITS - 1 |-> (1 - a[i]) * 2^(i - 1)]), WORD_BITS - 1)

\* a faulty popcnt32: the last shift is taken of the sum of the nibbles, the
\* multiplication that adds the four bytes left out
popcnt32NoMultiply(n) ==
  LET n1 == Sub32(n, BitAnd(Sar(n, 1), WordOf(1431655765)))
      n2 == Add32(BitAnd(n1, WordOf(858993459)),
                  BitAnd(Sar(n1, 2), WordOf(858993459)))
  IN Int32Of(Sar(BitAnd(Add32(n2, Sar(n2, 4)), WordOf(252645135)), 24))

\* ImageUtils.popcnt32(n):
\*   n -= (n >> 1) & 0x55555555;
\*   n = (n & 0x33333333) + ((n >> 2) & 0x33333333);
\*   return (((n + (n >> 4)) & 0xf0f0f0f) * 0x1010101) >> 24;
popcnt32(n) ==
  LET n1 == Sub32(n, BitAnd(Sar(n, 1), WordOf(1431655765)))
      n2 == Add32(BitAnd(n1, WordOf(858993459)),
                  BitAnd(Sar(n1, 2), WordOf(858993459)))
  IN Int32Of(Sar(Mul32(BitAnd(Add32(n2, Sar(n2, 4)), WordOf(252645135)),
                       WordOf(16843009)), 24))

\* the number of 1 bits of a word
BitCount(a) == SumTo(a, WORD_BITS)

\* the word whose 1 bits are the bits of the set S of bit numbers 0..31
WordWithBits(S) == Array([i \in 1..WORD_BITS |-> IF (i - 1) \in S THEN 1 ELSE 0])

\* ~a
BitNot(a) == Array([i \in 1..WORD_BITS |-> 1 - a[i]])

\* the words popcnt32 is called with: at most two bits set, at most two bits
\* clear, and four equal bytes
PopcntWords ==
  { WordWithBits({i, j}) : i \in 0..WORD_BITS - 1, j \in 0..WORD_BITS - 1 }
  \cup { BitNot(WordWithBits({i, j})) : i \in 0..WORD_BITS - 1, j \in 0..WORD_BITS - 1 }
  \cup { Mul32(WordOf(b), WordOf(16843009)) : b \in 0..255 }

PopcntCalls ==
  { [fn |-> "popcnt32", done |-> FALSE, n |-> w, out |-> 0] : w \in PopcntWords }

\* the quads the blend is called with: the reference rectangle, of even and
\* of odd height, through the poses of the detector and a pose 2 px further
BlendQuads ==
  { transformCorners(H, MAX_PATTERN_SIZE, h) :
      H \in {Identity3x3, PoseShift, PoseShear, multiply_3x3(Translate(2, 0), PoseShift)},
      h \in {128, 127} }

\* the blend of OpticalFlowTracker.processFrame with drawDampedBox set
BlendCalls ==
  { [fn |-> "dampCorners", done |-> FALSE, currentCorners |-> c, dampedCorners |-> d,
     currentOpticalFrame |-> f, out |-> << >>] :
      c \in BlendQuads, d \in BlendQuads, f \in 0..MAX_PERSIST_OPTICAL_FRAMES }

(***************************************************************************)
(* FeatureDetector.matchPattern.  A descriptor is a row of 32 bytes, read  *)
(* as 8 int32 words; a descriptor matrix is the sequence of its rows.      *)
(***************************************************************************)
NUM_TRAIN_LEVELS == 8
MATCH_THRESHOLD == 48
\* the 8 of "for (let k = 0; k < 8; ++k)"
DESCR_WORDS == 8
\* the 256 of "let best_dist = 256"
BEST_DIST_INIT == 256

\* "curr_d += ImageUtils.popcnt32(query_u32[qd_off + k] ^ ld_i32[ld_off + k])",
\* k = 0..7
HammingDistance(q, p) ==
  SumTo(Array([k \in 1..DESCR_WORDS |-> popcnt32(BitXor(q[k], p[k]))]), DESCR_WORDS)

\* the (lev, pidx) of the descriptors of the pattern, in the order the two
\* inner loops inspect them
InspectionOrder(patternDescriptors) ==
  LET RECURSIVE From(_)
      From(lev) ==
        IF lev >= NUM_TRAIN_LEVELS THEN << >>
        ELSE Array([i \in 1..Len(patternDescriptors[lev + 1]) |-> <<lev, i - 1>>])
               \o From(lev + 1)
  IN From(0)

\* a faulty comparison: a descriptor as near as the best so far replaces it
keepBestLastSeen(best, curr_d, lev, pidx) ==
  IF curr_d <= best.best_dist
  THEN [best_dist |-> curr_d, best_dist2 |-> best.best_dist,
        best_lev |-> lev, best_idx |-> pidx]
  ELSE IF curr_d < best.best_dist2 THEN [best EXCEPT !.best_dist2 = curr_d]
       ELSE best

\* "if (curr_d < best_dist) {...} else if (curr_d < best_dist2) {...}"
keepBest(best, curr_d, lev, pidx) ==
  IF curr_d < best.best_dist
  THEN [best_dist |-> curr_d, best_dist2 |-> best.best_dist,
        best_lev |-> lev, best_idx |-> pidx]
  ELSE IF curr_d < best.best_dist2 THEN [best EXCEPT !.best_dist2 = curr_d]
       ELSE best

\* the two inner loops for the query descriptor q: the descriptors
\* order[lo..hi] are inspected in order, starting from best (the first half
\* of them is finished before the second half is entered)
bestOfPattern(patternDescriptors, q) ==
  LET order == InspectionOrder(patternDescriptors)
      curr_d == Array([n \in 1..Len(order) |->
                  HammingDistance(q, patternDescriptors[order[n][1] + 1][order[n][2] + 1])])
      RECURSIVE Over(_, _, _)
      Over(lo, hi, best) ==
        IF lo > hi THEN best
        ELSE IF lo = hi
             THEN keepBest(best, curr_d[lo], order[lo][1], order[lo][2])
             ELSE LET first == Over(lo, (lo + hi) \div 2, best)
                  IN IF first.best_dist <= BEST_DIST_INIT
                     THEN Over((lo + hi) \div 2 + 1, hi, first)
                     ELSE first
  IN Over(1, Len(order),
          [best_dist |-> BEST_DIST_INIT, best_dist2 |-> BEST_DIST_INIT,
           best_lev |-> -1, best_idx |-> -1])

\* matchPattern(patternDescriptors, screenDescriptors): the first
\* num_matches entries of this.matches; num_matches is their number
matchPattern(patternDescriptors, screenDescriptors) ==
  LET RECURSIVE From(_, _)
      From(qidx, matches) ==
        IF qidx >= Len(screenDescriptors) THEN matches
        ELSE LET best == bestOfPattern(patternDescriptors, screenDescriptors[qidx + 1])
             IN From(qidx + 1,
                     IF best.best_dist < MATCH_THRESHOLD
                     THEN Append(matches, [screen_idx |-> qidx,
                                           pattern_lev |-> best.best_lev,
                                           pattern_idx |-> best.best_idx,
                                           distance |-> best.best_dist])
                     ELSE matches)
  IN From(0, << >>)

\* the descriptor whose first n bits are 1 and whose other bits are 0: two
\* such descriptors differ in |n - m| bits
DescriptorOfOnes(n) ==
  Array([k \in 1..DESCR_WORDS |->
     WordWithBits({b \in 0..WORD_BITS - 1 : WORD_BITS * (k - 1) + b < n})])

\* the rows a level of the pattern may hold: none, or descriptors 47, 48
\* and 0 bits from the query of 100 ones, on either side of it
LevelRows ==
  { << >>,
    << DescriptorOfOnes(147), DescriptorOfOnes(53) >>,
    << DescriptorOfOnes(52) >>,
    << DescriptorOfOnes(148), DescriptorOfOnes(100), DescriptorOfOnes(100) >>,
    << DescriptorOfOnes(256) >> }

\* the patterns: the levels 0 and 7 hold rows, the others are empty
MatchPatterns ==
  { Array([lev \in 1..NUM_TRAIN_LEVELS |->
       CASE lev = 1 -> a [] lev = NUM_TRAIN_LEVELS -> b [] OTHER -> << >>]) :
      a \in LevelRows, b \in LevelRows }

\* the descriptors of the screen: none, one or two
MatchQueries ==
  { << >>,
    << DescriptorOfOnes(100) >>,
    << DescriptorOfOnes(0), DescriptorOfOnes(100) >>,
    << DescriptorOfOnes(101), DescriptorOfOnes(5) >> }

MatchCalls ==
  { [fn |-> "matchPattern", done |-> FALSE, patternDescriptors |-> p,
     screenDescriptors |-> q, out |-> << >>] :
      p \in MatchPatterns, q \in MatchQueries }

(***************************************************************************)
(* Keypoint selection: FeatureDetector.detectKeypoints and the trainer's   *)
(* _processLevel.  jsfeat.yape06.detect is the environment: it writes the  *)
(* corners it finds into the array, in the order it scans the image, and   *)
(* returns their number.  A keypoint is held as its score.                 *)
(***************************************************************************)
MAX_PER_LEVEL == 300
\* the score _processLevel gives its default keypoints
DEFAULT_SCORE == 100
\* the detector finds at most MaxOver corners more than the limit
MaxOver == 2

\* jsfeat.math.qsort(corners, 0, count - 1, (a, b) => b.score < a.score):
\* the corners in non-increasing order of score
qsortByScore(corners) ==
  LET RECURSIVE From(_)
      From(V) ==
        IF V = {} THEN << >>
        ELSE LET v == CHOOSE x \in V : \A y \in V : x >= y
             IN SelectSeq(corners, LAMBDA e : e = v) \o From(V \ {v})
  IN From({corners[i] : i \in 1..Len(corners)})

\* "if (count > maxAllowed) { qsort(...); count = maxAllowed; }": the array
\* and the count afterwards
limitCorners(corners, maxAllowed) ==
  IF Len(corners) > maxAllowed
  THEN [corners |-> qsortByScore(corners), count |-> maxAllowed]
  ELSE [corners |-> corners, count |-> Len(corners)]

\* FeatureDetector.detectKeypoints(img, corners, maxAllowed, ...), corners
\* what yape06.detect found: [count |-> the value returned, corners |-> the
\* first count entries of the array]
detectKeypoints(corners, maxAllowed) ==
  LET lim == limitCorners(corners, maxAllowed)
  IN [count |-> lim.count, corners |-> SubSeq(lim.corners, 1, lim.count)]

\* ImageProcessingService._processLevel for one level, corners what
\* yape06.detect found and hasNonZero whether one of the first 100 pixels of
\* the level image was not 0: [good_corners, corners |-> the first
\* good_corners entries of trainted_pattern_corners[lev], rows |-> the rows
\* of pattern_descriptors[lev]].  trainPattern allocates the matrix with
\* MAX_PER_LEVEL rows and orb.describe resizes it to the count it is given.
processLevel(corners, hasNonZero) ==
  LET lim == limitCorners(corners, MAX_PER_LEVEL)
      good_corners == IF lim.count = 0 /\ hasNonZero THEN 5 ELSE lim.count
      kept == IF lim.count = 0 /\ hasNonZero
              THEN Array([i \in 1..5 |-> DEFAULT_SCORE])
              ELSE SubSeq(lim.corners, 1, lim.count)
  IN [good_corners |-> good_corners,
      corners |-> kept,
      rows |-> IF good_corners > 0 THEN good_corners ELSE MAX_PER_LEVEL]

\* trainPattern: _processLevel for each of the levels, levels[k] what the
\* level k - 1 meets
trainPattern(levels) ==
  Array([k \in 1..NUM_TRAIN_LEVELS |-> processLevel(levels[k].corners, levels[k].hasNonZero)])

\* n scores, the i-th (i * step) % 11: all equal for step 0, in no order
\* otherwise
Scores(n, step) == Array([i \in 1..n |-> (i * step) % 11])

\* the corners yape06.detect may find: none, a few, and as many as the limit
\* or up to MaxOver more
DetectedCorners ==
  { Scores(n, step) :
      n \in {0, 1, 2, 3} \cup ((MAX_CORNERS - 1)..(MAX_CORNERS + MaxOver)),
      step \in {0, 7} }

DetectCalls ==
  { [fn |-> "detectKeypoints", done |-> FALSE, corners |-> c,
     maxAllowed |-> MAX_CORNERS, out |-> [count |-> 0, corners |-> << >>]] :
      c \in DetectedCorners }

\* what a level of the trainer may meet
LevelInputs ==
  { [corners |-> Scores(n, 7), hasNonZero |-> nz] :
      n \in {0, 3, MAX_PER_LEVEL + MaxOver}, nz \in BOOLEAN }

\* the trainings: the levels 0 and 7 meet any of LevelInputs, the levels
\* between them three corners
TrainCalls ==
  { [fn |-> "trainPattern", done |-> FALSE,
     levels |-> Array([k \in 1..NUM_TRAIN_LEVELS |->
                   CASE k = 1 -> a [] k = NUM_TRAIN_LEVELS -> b
                     [] OTHER -> [corners |-> Scores(3, 7), hasNonZero |-> TRUE]]),
     out |-> << >>] :
      a \in LevelInputs, b \in LevelInputs }

\* pattern_descriptors after trainPattern, trained what trainPattern
\* returns: orb.describe writes one row per keypoint of a level (the row i
\* of a level is given rowBits + i ones here), and a level without
\* keypoints keeps the MAX_PER_LEVEL zero-filled rows of its allocation
trainedDescriptors(trained, rowBits) ==
  Array([k \in 1..NUM_TRAIN_LEVELS |->
     IF trained[k].good_corners > 0
     THEN Array([i \in 1..trained[k].good_corners |-> DescriptorOfOnes(rowBits + i)])
     ELSE Array([i \in 1..MAX_PER_LEVEL |-> DescriptorOfOnes(0)])])

\* a training followed by a matching: the level 7 meets no corner, with
\* or without a pixel that is not 0, or three corners; the screen has a
\* descriptor near the trained rows and one of a patch of little texture
TrainedMatchCalls ==
  { [fn |-> "matchTrained", done |-> FALSE,
     levels |-> Array([k \in 1..NUM_TRAIN_LEVELS |->
                   IF k = NUM_TRAIN_LEVELS THEN b
                   ELSE [corners |-> Scores(3, 7), hasNonZero |-> TRUE]]),
     rowBits |-> 150,
     screenDescriptors |-> << DescriptorOfOnes(152), DescriptorOfOnes(5) >>,
     out |-> [trained |-> << >>, matches |-> << >>]] :
      b \in { l \in LevelInputs : Len(l.corners) <= 3 } }

(***************************************************************************)
(* ImageUtils.isPointInPolygon.                                            *)
(***************************************************************************)
\* "point.x < ((xj - xi) * (point.y - yi)) / (yj - yi) + xi", yj # yi, with
\* the quotient cross-multiplied
LeftOfEdge(point, pi, pj) ==
  LET num == (pj[1] - pi[1]) * (point[2] - pi[2])
      den == pj[2] - pi[2]
  IN IF den > 0 THEN (point[1] - pi[1]) * den < num
                ELSE (point[1] - pi[1]) * den > num

\* "yi > point.y !== yj > point.y && point.x < ...": the edge from
\* polygon[j] to polygon[i] is crossed
intersect(point, pi, pj) ==
  /\ (pi[2] > point[2]) # (pj[2] > point[2])
  /\ LeftOfEdge(point, pi, pj)

\* isPointInPolygon(point, polygon): inside is toggled once for every edge
\* crossed, the edges being (i, j) = (0, n-1), (1, 0), ..., (n-1, n-2)
isPointInPolygon(point, polygon) ==
  LET n == Len(polygon)
      crossed == { i \in 1..n :
                     intersect(point, polygon[i], polygon[IF i = 1 THEN n ELSE i - 1]) }
  IN Cardinality(crossed) % 2 = 1

\* convex quads: those of the blend, a diamond and a trapezoid
ConvexQuads ==
  BlendQuads \cup
  { << Pt(20, 0), Pt(40, 20), Pt(20, 40), Pt(0, 20) >>,
    << Pt(10, 0), Pt(30, 0), Pt(40, 20), Pt(0, 20) >> }

\* the calls isPointInPolygon(polygon[k], polygon), k = 0..3, one after the
\* other: out holds the values returned so far
PolygonCalls ==
  { [fn |-> "isPointInPolygon", done |-> FALSE, polygon |-> q, out |-> << >>] :
      q \in ConvexQuads }

(***************************************************************************)
(* The trainer's images (ImageProcessingService.processImageData,          *)
(* trainPattern and _processLevel).  An image is the record [cols, rows,   *)
(* srcCols, srcRows, artificial, bands]: cols by rows pixels, sampled from *)
(* a content of srcCols by srcRows pixels, which is either the grid that   *)
(* addArtificialFeatures draws (artificial) or horizontal bands, bands[k]  *)
(* = <<first row, value>>, the first band starting at row 0.               *)
(* jsfeat.imgproc.grayscale and resample are the environment: the          *)
(* grayscale is one of GrayImages, and a resampled image shows the content *)
(* of its source at the new size.                                          *)
(***************************************************************************)
\* the pixel (x, y) of what addArtificialFeatures draws into an image of
\* cols by rows pixels: the grid, and over it the four circles of drawCircle
ArtificialPixel(cols, rows, x, y) ==
  LET inCircle(cx, cy) ==
        /\ Max(0, cy - 15) <= y /\ y < Min(rows, cy + 15)
        /\ Max(0, cx - 15) <= x /\ x < Min(cols, cx + 15)
        /\ (x - cx) * (x - cx) + (y - cy) * (y - cy) <= 15 * 15
  IN IF \/ inCircle(40, 40) \/ inCircle(cols - 40, 40)
        \/ inCircle(40, rows - 40) \/ inCircle(cols - 40, rows - 40)
     THEN 200
     ELSE IF (x % 40 < 20) # (y % 40 < 20) THEN 255 ELSE 50

\* img.data[i]
Pixel(img, i) ==
  LET sx == ((i % img.cols) * img.srcCols) \div img.cols
      sy == ((i \div img.cols) * img.srcRows) \div img.rows
      b == img.bands
  IN IF img.artificial
     THEN ArtificialPixel(img.srcCols, img.srcRows, sx, sy)
     ELSE b[CHOOSE k \in 1..Len(b) :
              b[k][1] <= sy /\ (k = Len(b) \/ b[k + 1][1] > sy)][2]

\* addArtificialFeatures(img): every pixel of the image is overwritten
addArtificialFeatures(img) ==
  [img EXCEPT !.srcCols = img.cols, !.srcRows = img.rows,
              !.artificial = TRUE, !.bands = << >>]

\* "for (i = 0; i < Math.min(100, img.data.length); i++) if (img.data[i] >
\* 0) { hasNonZero = true; break; }"
hasNonZero(img) ==
  \E i \in 0..(Min(100, img.cols * img.rows) - 1) : Pixel(img, i) > 0

\* processImageData: "max === 0 || max - min < 5", min and max over all the
\* pixels of the grayscale (an image of bands)
insufficientContrast(img) ==
  LET values == { img.bands[k][2] : k \in 1..Len(img.bands) }
      max == CHOOSE v \in values : \A w \in values : w <= v
      min == CHOOSE v \in values : \A w \in values : w >= v
  IN max = 0 \/ max - min < 5

\* jsfeat.imgproc.resample(src, dst, nw, nh): dst afterwards
resample(src, nw, nh) == [src EXCEPT !.cols = nw, !.rows = nh]

\* trainPattern: "(lev0_img.cols * sc) | 0" at the level lev, sc being 1.0
\* divided lev times by SCALE_INC = Math.sqrt(2.0).  In doubles sc is just
\* below 2^-(lev/2) at the even levels from 2 on, so that a quotient that
\* would be whole comes out one less.
LevelDim(dim, lev) ==
  IF lev = 0 THEN dim
  ELSE IF lev % 2 = 1 THEN SqrtFrom((dim * dim) \div (2 ^ lev), 0, dim)
  ELSE IF dim % (2 ^ (lev \div 2)) = 0 THEN dim \div (2 ^ (lev \div 2)) - 1
  ELSE dim \div (2 ^ (lev \div 2))

\* processImageData(imageData) with the grayscale img_u8: [img_u8 |-> the
\* grayscale that is trained, lev0_img |-> the level-0 image of trainPattern,
\* lev_img |-> the image of each level of _processLevel when the keypoints
\* are detected in it]
processImageData(img_u8) ==
  LET gray == IF insufficientContrast(img_u8) THEN addArtificialFeatures(img_u8)
                                              ELSE img_u8
      new_width == ScaledDim(gray.cols, gray.cols, gray.rows)
      new_height == ScaledDim(gray.rows, gray.cols, gray.rows)
      copied == IF new_width = gray.cols /\ new_height = gray.rows
                THEN gray
                ELSE resample(gray, new_width, new_height)
      lev0_img == IF ~hasNonZero(copied) THEN addArtificialFeatures(copied) ELSE copied
      levelImage(lev) ==
        LET width == IF lev = 0 THEN 0 ELSE LevelDim(lev0_img.cols, lev)
            height == IF lev = 0 THEN 0 ELSE LevelDim(lev0_img.rows, lev)
            lev_img == IF width # 0 /\ height # 0
                       THEN resample(lev0_img, width, height)
                       ELSE lev0_img
        IN IF ~hasNonZero(lev_img) THEN addArtificialFeatures(lev_img) ELSE lev_img
  IN [ img_u8 |-> gray,
       lev0_img |-> lev0_img,
       lev_img |-> Array([k \in 1..NUM_TRAIN_LEVELS |-> levelImage(k - 1)]) ]

\* an image of bands as the grayscale conversion returns it
Gray(size, bands) ==
  [cols |-> size[1], rows |-> size[2], srcCols |-> size[1], srcRows |-> size[2],
   artificial |-> FALSE, bands |-> bands]

\* the grayscales of the reference image: of one value (black, nearly
\* black, grey), or of two values, the upper band 1 or 8 rows high
GrayImages ==
  { Gray(size, << <<0, v>> >>) : size \in RefImages, v \in {0, 3, 120} }
  \cup
  { Gray(size, << <<0, v[1]>>, <<top, v[2]>> >>) :
      size \in RefImages, top \in {1, 8},
      v \in { <<0, 200>>, <<200, 0>>, <<0, 4>>, <<100, 104>>, <<100, 105>> } }

ImageCalls ==
  { [fn |-> "processImageData", done |-> FALSE, img_u8 |-> g, out |-> << >>] :
      g \in GrayImages }

(***************************************************************************)
(* ImageProcessingService.calculateAngle.  The moments are sums over the   *)
(* pixels of a disc of radius 15 around the keypoint; what is modelled is  *)
(* which entries of img.data are added to them.                            *)
(***************************************************************************)
U_MAX == <<15, 15, 15, 15, 14, 14, 14, 13, 13, 12, 11, 10, 9, 8, 6, 3>>

\* calculateAngle(img, px, py), img.cols = cols and img.data.length =
\* length: the samples accumulated, each [u, v, pos]: the entry pos of
\* img.data, read for the pixel u columns and v rows from the keypoint
calculateAngle(cols, length, px, py) ==
  LET center_off == py * cols + px
      inData(pos) == pos >= 0 /\ pos < length
      d(v) == IF v < Len(U_MAX) THEN U_MAX[v + 1] ELSE v
      pos_plus(u, v) == center_off + u + v * cols
      pos_minus(u, v) == center_off + u - v * cols
  IN { [u |-> u, v |-> 0, pos |-> center_off + u] :
         u \in { u \in -15..15 : inData(center_off + u) } }
     \cup
     UNION { UNION { { [u |-> u, v |-> v, pos |-> pos_plus(u, v)],
                       [u |-> u, v |-> -v, pos |-> pos_minus(u, v)] } :
                     u \in { u \in -d(v)..d(v) :
                               inData(pos_plus(u, v)) /\ inData(pos_minus(u, v)) } } :
             v \in 1..15 }

\* The calls of calculateAngle in a training: the level image is the level
\* lev of a reference image; its data is as long as the image, or as long
\* as the matrix was allocated (the size of the reference image) if
\* resizing keeps the buffer; the keypoint is one yape06.detect admits with
\* the border of _processLevel, "Math.min(17, Math.floor(Math.min(cols,
\* rows) / 10))" (it also keeps 5 columns and 3 rows from the edges): the
\* nearest to a corner of the image, or the centre.
AngleCalls ==
  UNION { LET cols == LevelDim(RefWidth(size), lev)
              rows == LevelDim(RefHeight(size), lev)
              border == Min(17, Min(cols, rows) \div 10)
              bx == Max(border, 5)
              by == Max(border, 3)
          IN { [fn |-> "calculateAngle", done |-> FALSE, cols |-> cols, rows |-> rows,
                length |-> length, px |-> px, py |-> py, out |-> {}] :
                 length \in {cols * rows, size[1] * size[2]},
                 px \in {bx, cols \div 2, cols - bx - 1},
                 py \in {by, rows \div 2, rows - by - 1} } :
          size \in RefImages, lev \in 0..(NUM_TRAIN_LEVELS - 1) }

(***************************************************************************)
(* The OpticalFlowTracker near the capacity of its buffers: seeded with    *)
(* about MAX_CORNERS points, clicked on, given grid points, and fed frames.*)
(***************************************************************************)
GRID_DISTANCE == 30

\* a faulty handleCanvasClick: the point is added without the test for space
handleCanvasClickNoSpaceTest(t, x, y, width, height) ==
  IF x > 0 /\ y > 0 /\ x < width /\ y < height
  THEN [t EXCEPT !.curr_xy = Store(t.curr_xy,
                                   Points(t.curr_xy, t.point_count) \o << Pt(x, y) >>,
                                   t.point_count + 1),
                 !.point_count = t.point_count + 1]
  ELSE t

\* handleCanvasClick(e): (x, y) the click relative to the canvas, width and
\* height the size of the canvas
handleCanvasClick(t, x, y, width, height) ==
  IF x > 0 /\ y > 0 /\ x < width /\ y < height /\ t.point_count < MAX_CORNERS
  THEN [t EXCEPT !.curr_xy = Store(t.curr_xy,
                                   Points(t.curr_xy, t.point_count) \o << Pt(x, y) >>,
                                   t.point_count + 1),
                 !.point_count = t.point_count + 1]
  ELSE t

\* addGridPoints(shape_pts): [t |-> the tracker afterwards, offered |-> the
\* number of points ImageUtils.getInsidePoints returned (0 if it was not
\* called)].  getInsidePoints walks the bounding box of the shape in steps
\* of grid_distance, x in the outer loop, and keeps the points inside.
addGridPoints(t, shape_pts) ==
  IF t.point_count >= MAX_CORNERS THEN [t |-> t, offered |-> 0]
  ELSE LET xs == { shape_pts[i][1] : i \in 1..Len(shape_pts) }
           ys == { shape_pts[i][2] : i \in 1..Len(shape_pts) }
           minX == CHOOSE v \in xs : \A w \in xs : v <= w
           maxX == CHOOSE v \in xs : \A w \in xs : v >= w
           minY == CHOOSE v \in ys : \A w \in ys : v <= w
           maxY == CHOOSE v \in ys : \A w \in ys : v >= w
           ny == (maxY - minY) \div GRID_DISTANCE + 1
           nx == (maxX - minX) \div GRID_DISTANCE + 1
           walked == Array([k \in 1..nx * ny |->
                       Pt(minX + GRID_DISTANCE * ((k - 1) \div ny),
                          minY + GRID_DISTANCE * ((k - 1) % ny))])
           gridPoints == SelectSeq(walked, LAMBDA p : isPointInPolygon(p, shape_pts))
           added == Min(Len(gridPoints), MAX_CORNERS - t.point_count)
       IN [t |-> [t EXCEPT !.curr_xy = Store(t.curr_xy,
                                             Points(t.curr_xy, t.point_count)
                                               \o SubSeq(gridPoints, 1, added),
                                             t.point_count + added),
                           !.point_count = t.point_count + added],
           offered |-> Len(gridPoints)]

\* tracker.initWithHomography with the result of a detection that kept one
\* point less than MAX_CORNERS, or MaxOver more; the caller detects while
\* the tracker holds no point
TrackerSeedFull ==
  \E n \in {MAX_CORNERS - 1, MAX_CORNERS + MaxOver} :
    \E det \in {detectorProcessImage(detector, PreviewOf(refImg),
                  [num_matches |-> n, ransac |-> "ok", good_cnt |-> n,
                   H |-> PoseShift, layout |-> "spread"])} :
      /\ tracker.point_count = 0
      /\ tracker' = initWithHomography(tracker, det.homography, det.goodScreenPoints,
                                       RefWidth(refImg), RefHeight(refImg))
      /\ lastOpticalCorners' = det.corners
      /\ tick' = [NoTick EXCEPT !.ran = TRUE, !.detector = "found"]
      /\ call' = NoCall
      /\ UNCHANGED << camera, isInitialized, initCalled, training, pointData, refImg,
                      isDetecting, opticalPersistFrameCount, glCanvasDisplay,
                      animationFrameId, rafPending, detector, renderer,
                      failRun, staleRun, idealRun >>

\* a click on the canvas, or outside its left edge, while the tracker shows
\* its quad
TrackerClick ==
  /\ tick.tracker = "quad"
  /\ \E x \in {0, 100} :
       /\ tracker' = handleCanvasClick(tracker, x, 50, 640, 480)
       /\ call' = [fn |-> "handleCanvasClick", done |-> TRUE, x |-> x,
                   point_count |-> tracker.point_count]
  /\ UNCHANGED << camera, isInitialized, initCalled, training, pointData, refImg,
                  isDetecting, opticalPersistFrameCount, lastOpticalCorners,
                  glCanvasDisplay, animationFrameId, rafPending, detector, renderer,
                  tick, failRun, staleRun, idealRun >>

\* tracker.addGridPoints(shape_pts) with the quad the tracker shows
TrackerAddGridPoints ==
  /\ tick.tracker = "quad"
  /\ \E res \in {addGridPoints(tracker, lastOpticalCorners)} :
       /\ tracker' = res.t
       /\ call' = [fn |-> "addGridPoints", done |-> TRUE, offered |-> res.offered,
                   point_count |-> tracker.point_count]
  /\ UNCHANGED << camera, isInitialized, initCalled, training, pointData, refImg,
                  isDetecting, opticalPersistFrameCount, lastOpticalCorners,
                  glCanvasDisplay, animationFrameId, rafPending, detector, renderer,
                  tick, failRun, staleRun, idealRun >>

\* a frame in which the scene has moved 2 px to the right and LK has lost
\* the first point, while the pattern is at most MaxX pixels to the right
TrackerFullFrame ==
  TrackerFrameIn(IF tracker.base_homography[3] + 2 <= MaxX
                 THEN { TrackEnv(Translate(2, 0), "dropFirst", "all") }
                 ELSE {},
                 {MAX_PERSIST_OPTICAL_FRAMES})

NextCapacity ==
  \/ TrackerSeedFull
  \/ TrackerClick
  \/ TrackerAddGridPoints
  \/ TrackerFullFrame

SpecCapacity == Init /\ [][NextCapacity]_vars

(***************************************************************************)
(* The camera service on its own, driven by the embedder and the browser.  *)
(* The video can only be ready while a stream feeds it.                    *)
(***************************************************************************)
\* the embedder's "await cameraService.initialize()"
CamInitialize(outcome) ==
  /\ camera.notified = "none"
  /\ camera' = cameraInitialize(camera, outcome).c
  /\ UNCHANGED << appVars, call >>

\* the embedder's cameraService.startCapturing()
CamStartCapturing ==
  /\ camera.notified # "none"
  /\ \E ready \in (IF camera.stream THEN BOOLEAN ELSE {FALSE}) :
       camera' = [startCapturing(camera, ready) EXCEPT !.wasCapturing =
                    IF camera.reinit = "released" THEN TRUE
                    ELSE camera.wasCapturing]
  /\ UNCHANGED << appVars, call >>

\* the embedder's cameraService.stopCapturing()
CamStopCapturing ==
  /\ camera.isCapturing
  /\ camera' = [stopCapturing(camera) EXCEPT !.wasCapturing = FALSE]
  /\ UNCHANGED << appVars, call >>

\* the browser runs the animation frame that captureFrame requested
CamCaptureFrame ==
  /\ camera.rafPending
  /\ \E ready \in (IF camera.stream THEN BOOLEAN ELSE {FALSE}) :
       camera' = captureFrame([camera EXCEPT !.rafPending = FALSE], ready)
  /\ UNCHANGED << appVars, call >>

\* The timer of handleOrientationChange fires: with a stream,
\* reinitializeAfterOrientationChange runs up to its first await, which is
\* after release(); then the listeners are told of the change.
CamOrientationChange ==
  /\ camera.notified # "none"
  /\ camera.reinit = "none"
  /\ camera' =
       [(IF camera.stream
         THEN [release(camera) EXCEPT !.reinit = "released",
                                      !.wasCapturing = camera.isCapturing]
         ELSE camera)
        EXCEPT !.notified = "orientationchange"]
  /\ UNCHANGED << appVars, call >>

\* reinitializeAfterOrientationChange after its delay: initialize(), then
\* "if (this.isCapturing) this.startCapturing()"; an error of initialize is
\* caught and given to the listeners.
CamReinitialized(outcome) ==
  /\ camera.reinit = "released"
  /\ \E r \in {cameraInitialize(camera, outcome)} :
     \E ready \in (IF r.c.stream THEN BOOLEAN ELSE {FALSE}) :
       camera' =
         [(IF r.ok /\ r.c.isCapturing THEN startCapturing(r.c, ready)
           ELSE r.c)
          EXCEPT !.reinit = "none"]
  /\ UNCHANGED << appVars, call >>

NextCamera ==
  \/ \E outcome \in {"ok", "denied", "timeout"} : CamInitialize(outcome)
  \/ CamStartCapturing
  \/ CamStopCapturing
  \/ CamCaptureFrame
  \/ CamOrientationChange
  \/ \E outcome \in {"ok", "denied", "timeout"} : CamReinitialized(outcome)

SpecCamera == Init /\ [][NextCamera]_vars

(***************************************************************************)
(* The functions of the libraries called on their own: the call is drawn   *)
(* when the specification starts, and the function's action returns it.    *)
(***************************************************************************)
LibCalls == PopcntCalls \cup BlendCalls \cup MatchCalls \cup DetectCalls \cup TrainCalls
  \cup PolygonCalls \cup ImageCalls \cup AngleCalls \cup TrainedMatchCalls

\* ImageUtils.popcnt32(n)
Popcnt32Call ==
  /\ call.fn = "popcnt32"
  /\ ~call.done
  /\ call' = [call EXCEPT !.done = TRUE, !.out = popcnt32(call.n)]
  /\ UNCHANGED << appVars, camera >>

\* the blend of OpticalFlowTracker.processFrame
DampCornersCall ==
  /\ call.fn = "dampCorners"
  /\ ~call.done
  /\ call' = [call EXCEPT !.done = TRUE,
                          !.out = dampCorners(call.currentCorners, call.dampedCorners,
                                              call.currentOpticalFrame)]
  /\ UNCHANGED << appVars, camera >>

\* FeatureDetector.matchPattern(patternDescriptors, screenDescriptors)
MatchPatternCall ==
  /\ call.fn = "matchPattern"
  /\ ~call.done
  /\ call' = [call EXCEPT !.done = TRUE,
                          !.out = matchPattern(call.patternDescriptors,
                                               call.screenDescriptors)]
  /\ UNCHANGED << appVars, camera >>

\* FeatureDetector.detectKeypoints
DetectKeypointsCall ==
  /\ call.fn = "detectKeypoints"
  /\ ~call.done
  /\ call' = [call EXCEPT !.done = TRUE,
                          !.out = detectKeypoints(call.corners, call.maxAllowed)]
  /\ UNCHANGED << appVars, camera >>

\* ImageProcessingService.trainPattern
TrainPatternCall ==
  /\ call.fn = "trainPattern"
  /\ ~call.done
  /\ call' = [call EXCEPT !.done = TRUE, !.out = trainPattern(call.levels)]
  /\ UNCHANGED << appVars, camera >>

\* ImageUtils.isPointInPolygon(point, polygon), point the next vertex of
\* the polygon
IsPointInPolygonCall ==
  /\ call.fn = "isPointInPolygon"
  /\ ~call.done
  /\ LET point == call.polygon[Len(call.out) + 1]
         out == Append(call.out, isPointInPolygon(point, call.polygon))
     IN call' = [call EXCEPT !.out = out, !.done = (Len(out) = Len(call.polygon))]
  /\ UNCHANGED << appVars, camera >>

\* ImageProcessingService.processImageData
ProcessImageDataCall ==
  /\ call.fn = "processImageData"
  /\ ~call.done
  /\ call' = [call EXCEPT !.done = TRUE, !.out = processImageData(call.img_u8)]
  /\ UNCHANGED << appVars, camera >>

\* ImageProcessingService.calculateAngle
CalculateAngleCall ==
  /\ call.fn = "calculateAngle"
  /\ ~call.done
  /\ call' = [call EXCEPT !.done = TRUE,
                          !.out = calculateAngle(call.cols, call.length, call.px, call.py)]
  /\ UNCHANGED << appVars, camera >>

\* trainPattern, then FeatureDetector.matchPattern against the descriptors
\* it left in pattern_descriptors
MatchTrainedCall ==
  /\ call.fn = "matchTrained"
  /\ ~call.done
  /\ \E trained \in {trainPattern(call.levels)} :
     \E patternDescriptors \in {trainedDescriptors(trained, call.rowBits)} :
       call' = [call EXCEPT
                  !.done = TRUE,
                  !.out = [trained |-> trained,
                           matches |-> matchPattern(patternDescriptors,
                                                    call.screenDescriptors)]]
  /\ UNCHANGED << appVars, camera >>

InitLib ==
  /\ Constructed
  /\ call \in LibCalls

NextLib ==
  \/ Popcnt32Call
  \/ DampCornersCall
  \/ MatchPatternCall
  \/ DetectKeypointsCall
  \/ TrainPatternCall
  \/ IsPointInPolygonCall
  \/ ProcessImageDataCall
  \/ CalculateAngleCall
  \/ MatchTrainedCall

SpecLib == InitLib /\ [][NextLib]_vars


(***************************************************************************)
(* The properties.                                                         *)
(***************************************************************************)
\* C1: in every tick at most one of the detector and the tracker runs,
\* never both on the same frame.
C1_OneStagePerTick == tick.detector = "none" \/ tick.tracker = "none"

\* C2: a tick whose detection finds the pattern resets the persistence
\* counter to 0, so that the blend of the first tracker call starts the ramp.
C2_FoundResetsPersist == tick.detector = "found" => opticalPersistFrameCount = 0

\* C3 as stated: the persistence counter always lies in
\* 0..MAX_PERSIST_OPTICAL_FRAMES.
C3_PersistWithinMaxPersist ==
  opticalPersistFrameCount \in 0..MAX_PERSIST_OPTICAL_FRAMES

\* C3 amended: the persistence counter always lies in 0..10, the limit of the
\* increment that opens processFrame.
C3_PersistWithinCountLimit ==
  opticalPersistFrameCount \in 0..PERSIST_COUNT_LIMIT

\* the counter has passed MAX_PERSIST_OPTICAL_FRAMES and stands at the limit
C3_PersistAtCountLimit ==
  tick.ran /\ opticalPersistFrameCount = PERSIST_COUNT_LIMIT

\* C4: in a tick whose detection fails, the stored quad is rendered, and
\* kept as it is, exactly if the counter (as the tick tests it, after its
\* increment) is below MAX_PERSIST_OPTICAL_FRAMES and a quad is stored;
\* otherwise nothing is rendered, the stored quad is cleared and the overlay
\* canvas hidden.
C4_StaleQuadIffPersisting ==
  [][ (isDetecting /\ rafPending' /\ tick'.detector = "failed")
        => IF opticalPersistFrameCount' < MAX_PERSIST_OPTICAL_FRAMES
                /\ lastOpticalCorners # << >>
           THEN /\ tick'.rendered = << lastOpticalCorners >>
                /\ lastOpticalCorners' = lastOpticalCorners
           ELSE /\ tick'.rendered = << >>
                /\ lastOpticalCorners' = << >>
                /\ glCanvasDisplay' = "none" ]_vars

\* a failing detection has just rendered the stored quad
C4_StaleQuadRendered ==
  /\ tick.detector = "failed"
  /\ tick.rendered = << lastOpticalCorners >>
  /\ opticalPersistFrameCount = MAX_PERSIST_OPTICAL_FRAMES - 1

\* C5: once the detection has failed in MAX_PERSIST_OPTICAL_FRAMES
\* consecutive ticks the stored quad is cleared, the overlay hidden and the
\* tick rendered nothing; and the stored quad is never shown, without a new
\* one, in more than MAX_PERSIST_OPTICAL_FRAMES consecutive ticks.
C5_StaleQuadExpires ==
  /\ failRun >= MAX_PERSIST_OPTICAL_FRAMES
       => /\ lastOpticalCorners = << >>
          /\ glCanvasDisplay = "none"
          /\ tick.rendered = << >>
  /\ staleRun <= MAX_PERSIST_OPTICAL_FRAMES

\* the tracker lost the pattern and the detection has failed in each of the
\* MAX_PERSIST_OPTICAL_FRAMES ticks since: the last of them cleared the quad
C5_ExpiredAfterLoss ==
  /\ failRun = MAX_PERSIST_OPTICAL_FRAMES
  /\ opticalPersistFrameCount = MAX_PERSIST_OPTICAL_FRAMES
  /\ lastOpticalCorners = << >>
  /\ glCanvasDisplay = "none"

\* C6: a tick that begins in tracking and whose tracker call returns false
\* renders the stored quad exactly once, leaves the application detecting
\* with the counter at 0, and the next tick runs the detector.
C6_LostReentersDetecting ==
  [][ /\ (~isDetecting /\ rafPending' /\ tick'.tracker = "lost")
           => /\ tick'.rendered = << lastOpticalCorners >>
              /\ lastOpticalCorners' = lastOpticalCorners
              /\ isDetecting'
              /\ opticalPersistFrameCount' = 0
      /\ (tick.tracker = "lost" /\ rafPending')
           => tick'.detector # "none" ]_vars

\* a tracking tick has just lost the pattern
C6_LostWhileTracking ==
  /\ tick.detector = "none"
  /\ tick.tracker = "lost"
  /\ isDetecting
  /\ opticalPersistFrameCount = 0

\* C7: from a detection that seeds at least 20 well-spread inliers on, while
\* the pattern moves 2 px a frame and LK and RANSAC keep every point, the
\* tracker does not lose the pattern and every tick ends in tracking.
C7_IdealRunKeepsTracking ==
  idealRun >= 1 => (tick.tracker = "quad" /\ ~isDetecting)

\* C8: every quad given to videoOverlayRenderer.render is a valid
\* quadrilateral (isQuadrilateral), and a tick never keeps an invalid quad
\* of the tracker.
C8_RenderedQuadsValid ==
  /\ \A i \in 1..Len(tick.rendered) : isQuadrilateral(tick.rendered[i])
  /\ tick.tracker = "quad" => isQuadrilateral(lastOpticalCorners)

\* C9: a tick in which the tracker loses the pattern tells the renderer
\* setDetectionState(true), and leaves the renderer's flag set.
C9_SinkToldOnReentry ==
  tick.tracker = "lost"
    => /\ Len(tick.told) > 0
       /\ tick.told[Len(tick.told)]
       /\ renderer.isDetecting

\* C10: after a tracker.processFrame call that returned false, whichever
\* test lost the pattern, point_count is 0, base_homography the identity and
\* previousCorners null.
C10_LostClearsTracker ==
  tick.tracker = "lost"
    => /\ tracker.point_count = 0
       /\ tracker.base_homography = Identity3x3
       /\ tracker.previousCorners = << >>

\* the pattern was lost by the corner-movement test (previousCorners was set)
C10_LostByMovement == tick.tracker = "lost" /\ tick.lostAt = "movement"

C12_SeedDimsArePreviewDims ==
  tick.detector = "found"
    => /\ tracker.referenceWidth = pointData.cols * 2
       /\ tracker.referenceHeight = pointData.rows * 2

\* C13: popcnt32(x) is the number of 1 bits of x, for every 32-bit pattern
\* x, those with bit 31 set included.
C13_PopcntCountsBits ==
  (call.fn = "popcnt32" /\ call.done) => call.out = BitCount(call.n)

\* popcnt32 has returned 32 for the word of 32 one bits, the int32 -1
C13_PopcntOfMinusOne ==
  /\ call.fn = "popcnt32"
  /\ call.done
  /\ call.n = BitNot(WordOf(0))
  /\ call.out = WORD_BITS

\* C14: matchPattern emits a Match for a query descriptor exactly if the
\* least Hamming distance from it to the descriptors of all the levels of
\* the pattern is below MATCH_THRESHOLD; the Match carries that distance
\* and the level and index of the first descriptor, in the order of
\* inspection, at that distance; the matches are in the order of the queries.
C14_MatchIsFirstNearest ==
  (call.fn = "matchPattern" /\ call.done)
    => LET p == call.patternDescriptors
           q == call.screenDescriptors
           order == InspectionOrder(p)
           N == Len(order)
           dists(qidx) ==
             Array([n \in 1..N |->
                HammingDistance(q[qidx + 1], p[order[n][1] + 1][order[n][2] + 1])])
           least(d, n) == \A k \in 1..N : d[n] <= d[k]
           first(d, n) == least(d, n) /\ \A k \in 1..(n - 1) : d[k] > d[n]
       IN /\ \A qidx \in 0..(Len(q) - 1) :
               \E d \in {dists(qidx)} :
                 (\E m \in 1..Len(call.out) : call.out[m].screen_idx = qidx)
                   <=> (\E n \in 1..N : least(d, n) /\ d[n] < MATCH_THRESHOLD)
          /\ \A m \in 1..Len(call.out) :
               /\ call.out[m].screen_idx \in 0..(Len(q) - 1)
               /\ \E d \in {dists(call.out[m].screen_idx)} :
                    \E n \in 1..N :
                      /\ first(d, n)
                      /\ call.out[m].distance = d[n]
                      /\ call.out[m].pattern_lev = order[n][1]
                      /\ call.out[m].pattern_idx = order[n][2]
          /\ \A m \in 1..(Len(call.out) - 1) :
               call.out[m].screen_idx < call.out[m + 1].screen_idx

\* matchPattern has matched a query to the first of two descriptors at the
\* same least distance, the second one on a later level
C14_TieAcrossLevels ==
  /\ call.fn = "matchPattern"
  /\ call.done
  /\ \E m \in 1..Len(call.out) :
       LET q == call.screenDescriptors[call.out[m].screen_idx + 1]
           p == call.patternDescriptors
       IN /\ call.out[m].pattern_lev = 0
          /\ call.out[m].distance = MATCH_THRESHOLD - 1
          /\ \E i \in 1..Len(p[NUM_TRAIN_LEVELS]) :
               HammingDistance(q, p[NUM_TRAIN_LEVELS][i]) = call.out[m].distance

C16_RowsEqualKeypoints ==
  (call.fn = "trainPattern" /\ call.done)
    => \A k \in 1..NUM_TRAIN_LEVELS :
         call.out[k].rows = call.out[k].good_corners

\* C17: for a convex quad, isPointInPolygon gives the same answer for each
\* of the four vertices of the quad.
C17_VerticesAgree ==
  (call.fn = "isPointInPolygon" /\ call.done)
    => \A k \in 1..Len(call.out) : call.out[k] = call.out[1]

\* C18: processImage reports found exactly if a pattern preview is present,
\* at least POINT_THRESHOLD matches were produced, RANSAC succeeded and kept
\* at least 20 inliers; when RANSAC fails the homography is the identity,
\* the inlier count 0 and found false.
C18_FoundIffInliers ==
  call.fn = "processImage"
    => /\ call.found = detector.found
       /\ call.found
            <=> /\ call.patternPreview # NoPreview
                /\ call.env.num_matches >= POINT_THRESHOLD
                /\ call.env.ransac = "ok"
                /\ call.env.good_cnt >= GOOD_MATCH_THRESHOLD_TRACKING
       /\ ( /\ call.patternPreview # NoPreview
            /\ call.env.num_matches >= POINT_THRESHOLD
            /\ call.env.ransac = "fail" )
            => /\ call.homography = Identity3x3
               /\ call.good_matches = 0
               /\ ~call.found

\* RANSAC has failed on enough matches, in a detector that had found the
\* pattern before
C18_RansacFailedAfterFound ==
  /\ call.fn = "processImage"
  /\ call.patternPreview # NoPreview
  /\ call.env.num_matches >= POINT_THRESHOLD
  /\ call.env.ransac = "fail"
  /\ detector.good_screen_points # << >>
  /\ detector.homo3x3 = Identity3x3
  /\ ~detector.found

\* C19: a call of processFrame declares the pattern lost at the density test
\* exactly if the mean distance between the points the tracker holds when
\* the call begins (those initWithHomography seeded, or those the call
\* before left) is below 25 px.
C19_DensityOfHeldPoints ==
  [][ tick'.tracker # "none"
        => ((tick'.lostAt = "density")
              <=> checkPointDensityBelow(tracker, DENSITY_LIMIT)) ]_vars

\* C20: in a call of processFrame that follows a call in which the pattern
\* was tracked, the pattern is declared lost at the corner-movement test
\* exactly if the quad projected in this call is, on average over the
\* corners, more than PRUNE_THRESHOLD px from the quad projected in the call
\* before.
C20_MovementSincePreviousTick ==
  [][ (tick.tracker = "quad" /\ tick'.tracker # "none" /\ call'.currentCorners # << >>)
        => ((tick'.lostAt = "movement")
              <=> AverageCornerMovementExceeds(call'.currentCorners,
                                               call.currentCorners,
                                               PRUNE_THRESHOLD)) ]_vars

\* C21: a call of processFrame that returns a quad leaves the tracker with
\* at least 20 points, and they are exactly the points that LK tracked in
\* this call and RANSAC marked as inliers of this call's homography, in
\* order; a call in which LK tracked fewer than 20 points, or RANSAC failed
\* or marked fewer than 20 inliers, returns false.
C21_QuadHoldsInliers ==
  [][ tick'.tracker # "none"
        => LET env == call'.env
               n == tracker.point_count
               held == Points(tracker.curr_xy, n)
               survivors == Kept(env.status, n)
               inliers == IF env.ransac = "fail" THEN << >>
                          ELSE Kept(env.ransac, Len(survivors))
               expected == Array([k \in 1..Len(inliers) |->
                                    ApplyH(env.motion, held[survivors[inliers[k] + 1] + 1])])
           IN /\ tick'.tracker = "quad"
                   => /\ tracker'.point_count >= POINT_THRESHOLD
                      /\ tracker'.point_count >= GOOD_MATCH_THRESHOLD_TRACKING
                      /\ Points(tracker'.curr_xy, tracker'.point_count) = expected
              /\ (Len(survivors) < POINT_THRESHOLD
                     \/ Len(inliers) < GOOD_MATCH_THRESHOLD_TRACKING)
                   => tick'.tracker = "lost" ]_vars

\* a quad was returned in a call in which RANSAC rejected a point
C21_QuadAfterOutlier ==
  /\ tick.tracker = "quad"
  /\ call.fn = "processFrame"
  /\ call.env.ransac = "dropFirst"
  /\ tracker.point_count = GOOD_MATCH_THRESHOLD_TRACKING

\* C22: the trainer overwrites an image with the synthetic grid only if the
\* image is degenerate: a grayscale whose contrast is at least 5 and that
\* has a pixel that is not 0 is trained as it is, at level 0 and at every
\* level of the pyramid.
C22_SyntheticOnlyIfDegenerate ==
  (call.fn = "processImageData" /\ call.done)
    => LET values == { call.img_u8.bands[k][2] : k \in 1..Len(call.img_u8.bands) }
           degenerate == \/ \A v \in values : v = 0
                         \/ \A v \in values, w \in values : v - w < 5
       IN ~degenerate
            => /\ ~call.out.img_u8.artificial
               /\ ~call.out.lev0_img.artificial
               /\ \A k \in 1..NUM_TRAIN_LEVELS : ~call.out.lev_img[k].artificial

\* C23: for a keypoint the border of the level admits, every sample
\* calculateAngle accumulates is a pixel of the level image: its column
\* px + u and its row py + v lie inside the image.
C23_SamplesInsideImage ==
  (call.fn = "calculateAngle" /\ call.done)
    => \A s \in call.out :
         /\ 0 <= call.px + s.u /\ call.px + s.u < call.cols
         /\ 0 <= call.py + s.v /\ call.py + s.v < call.rows

\* C24: once cleanup() has been called, between two frames, no processFrame
\* runs any more: the request for the next animation frame is cancelled, no
\* request is made again, and what only a frame changes (the record of the
\* last frame, the counter, the stored quad, the canvas, the detector, the
\* tracker and the renderer) stays as it is.
C24_NoTickAfterCleanup ==
  [][ call.fn = "cleanup"
        => /\ ~rafPending /\ ~rafPending'
           /\ animationFrameId = 0 /\ animationFrameId' = 0
           /\ UNCHANGED << tick, opticalPersistFrameCount, lastOpticalCorners,
                           glCanvasDisplay, detector, tracker, renderer >> ]_vars

\* cleanup() was called while the pipeline was tracking
C24_CleanedUpWhileTracking ==
  /\ call.fn = "cleanup"
  /\ tick.tracker = "quad"
  /\ ~rafPending

\* C25: when frames were being captured continuously at the moment an
\* orientation change released the camera, and the camera then initialises
\* again without error, continuous capture is running again: isCapturing
\* is true and an animation frame is requested.
C25_CaptureResumes ==
  [][ ( /\ camera.reinit = "released"
        /\ camera'.reinit = "none"
        /\ camera.wasCapturing
        /\ camera'.notified # "error" )
      => (camera'.isCapturing /\ camera'.rafPending) ]_vars

C27_NothingBeforeTrained ==
  training # "done"
    => /\ pointData = NoPreview
       /\ ~isDetecting
       /\ tick.detector = "none"
       /\ tick.tracker = "none"
       /\ tick.rendered = << >>
       /\ lastOpticalCorners = << >>

\* a frame was processed after the training had failed
C27_FrameAfterFailedTraining ==
  /\ training = "failed"
  /\ tick.ran
  /\ rafPending

\* C28: once the training has completed, between two frames a tracking
\* application (isDetecting false) holds a quad of exactly 4 points; so a
\* frame that begins in tracking runs the tracker, every frame runs the
\* detector or the tracker, and every quad rendered has exactly 4 points.
C28_TrackingHoldsQuad ==
  [][ training = "done"
        => /\ ~isDetecting => Len(lastOpticalCorners) = 4
           /\ ~isDetecting' => Len(lastOpticalCorners') = 4
           /\ rafPending'
                => /\ ~isDetecting => tick'.tracker # "none"
                   /\ tick'.detector # "none" \/ tick'.tracker # "none"
                   /\ \A i \in 1..Len(tick'.rendered) : Len(tick'.rendered[i]) = 4 ]_vars

\* a frame that began in tracking ran the tracker and rendered its quad
C28_TrackedFrame ==
  /\ training = "done"
  /\ ~isDetecting
  /\ tick.detector = "none"
  /\ tick.tracker = "quad"
  /\ Len(tick.rendered) = 1
  /\ Len(lastOpticalCorners) = 4

\* C29: every match that matchPattern emits against a trained pattern has
\* a pattern_idx smaller than the number of keypoints the trainer selected
\* at its pattern_lev, so findTransform pairs a screen point only with a
\* trained keypoint, never with a placeholder.
C29_MatchesNameTrainedKeypoints ==
  (call.fn = "matchTrained" /\ call.done)
    => \A n \in 1..Len(call.out.matches) :
         LET m == call.out.matches[n]
         IN  /\ m.pattern_idx >= 0
             /\ m.pattern_idx < call.out.trained[m.pattern_lev + 1].good_corners

\* C30: a frame calls videoOverlayRenderer.render at most once, whatever
\* the detector and the tracker return in it.
C30_RenderAtMostOnce == Len(tick.rendered) <= 1

\* the detector found the pattern and the tracker lost it in one frame, and
\* the frame rendered once
C30_FoundAndLostRenderedOnce ==
  /\ tick.detector = "found"
  /\ tick.tracker = "lost"
  /\ Len(tick.rendered) = 1
=============================================================================
